---- MODULE Spec2Model ----
(***************************************************************************)
(* Verification model of the python-server streaming core:                 *)
(*   cache/room_cache.py          RoomCacheManager (STT / translation /    *)
(*                                TTS caches, pending requests, listeners) *)
(*   services/room_processor.py   RoomProcessor (parallel fan-out)         *)
(*   server_v10.py                SessionState, UpdateParticipantSettings  *)
(*                                                                         *)
(* Every `with self._cache_lock:` block is one atomic action; everything   *)
(* between two blocks (a compute call, a wait on an Event) is a state in   *)
(* which other threads may run.                                            *)
(***************************************************************************)
EXTENDS Integers, Sequences, FiniteSets, TLC

(***************************************************************************)
(* Program constants (config/settings.py).                                 *)
(***************************************************************************)
CACHE_TTL_SECONDS == 10
CACHE_CLEANUP_INTERVAL == 30
STT_TIMEOUT == 15
TRANSLATION_TIMEOUT == 10
TTS_TIMEOUT == 8

(***************************************************************************)
(* Bounds of the model.                                                    *)
(***************************************************************************)
\* the clock advances in steps of TickStep seconds, up to MaxTime
TickStep == 10
MaxTime == 30
\* number of get_or_create calls one client thread makes
MaxCalls == 2
\* number of UpdateParticipantSettings calls
MaxUpdates == 1
\* number of segments the handler hands to the pipeline
MaxUtt == 1
\* number of session_init requests one stream sends
MaxInits == 2
\* number of segments of a session that audio chunks detach
MaxSegments == 2

(***************************************************************************)
(* Universes.                                                              *)
(***************************************************************************)
Threads == {"t1", "t2"}
Languages == {"ko", "en", "ja"}
\* the session whose segments the pipeline processes, and its stream's thread
S == "s1"
Handler == "h1"
\* the pool threads of RoomProcessor.get_executor(), one per submitted task
\* (Config.PARALLEL_WORKERS = 8 exceeds the number of languages)
WorkerOf(lang) ==
    CASE lang = "ko" -> "w_ko"
      [] lang = "en" -> "w_en"
      [] OTHER -> "w_ja"
Workers == {WorkerOf(lang) : lang \in Languages}
LangOf(w) == CHOOSE lang \in Languages : WorkerOf(lang) = w
Callers == Threads \cup {Handler} \cup Workers

None == "-"

\* a text is a sequence of one-character strings
TextHi == <<"h", "i">>
TextEmpty == <<>>

\* str.strip(): drop leading and trailing blanks
RECURSIVE LStrip(_)
LStrip(text) ==
    IF text # <<>> /\ Head(text) = " " THEN LStrip(Tail(text)) ELSE text

RECURSIVE RStrip(_)
RStrip(text) ==
    IF text # <<>> /\ text[Len(text)] = " "
    THEN RStrip(SubSeq(text, 1, Len(text) - 1))
    ELSE text

Strip(text) == RStrip(LStrip(text))

\* str.lower()
LowerChar(ch) ==
    CASE ch = "U" -> "u"
      [] ch = "O" -> "o"
      [] OTHER -> ch

Lower(text) == [i \in 1..Len(text) |-> LowerChar(text[i])]

\* Config.FILLER_WORDS (settings.py:157-168), the words over the model's alphabet
FILLER_WORDS == {<<"u", "m">>, <<"u", "h">>, <<"o", "k">>, <<"o", "h">>}

\* Config.MIN_TTS_TEXT_LENGTH
MIN_TTS_TEXT_LENGTH == 2

\* text.lower().strip() in FILLER_WORDS or text.strip() in FILLER_WORDS
\* the comparison without lower(): the second disjunct of the test alone
IsFillerCaseSensitive(text) == Strip(text) \in FILLER_WORDS
\* room_processor.py:296-297 and server_v10.py:1613-1614
IsFiller(text) == Strip(Lower(text)) \in FILLER_WORDS \/ Strip(text) \in FILLER_WORDS

\* hashlib.md5(audio_bytes).hexdigest()[:16]
make_audio_hash(audio) ==
    CASE audio = "a1" -> "md5_a1"
      [] audio = "a2" -> "md5_a2"
      [] OTHER -> "md5_a3"

\* hash(text): the process-local string hash used in translation/TTS keys;
\* a positional code of the characters, so that distinct texts of the model
\* get distinct hashes (python's 64-bit hash does not collide on them)
CharCode(ch) ==
    CASE ch = " " -> 1
      [] ch = "h" -> 2
      [] ch = "i" -> 3
      [] ch = "u" -> 4
      [] ch = "m" -> 5
      [] ch = "U" -> 6
      [] ch = "a" -> 7
      [] ch = "e" -> 8
      [] ch = "j" -> 9
      [] ch = "k" -> 10
      [] ch = "o" -> 11
      [] ch = "O" -> 12
      [] OTHER -> 13

RECURSIVE TextHash(_)
TextHash(text) ==
    IF text = <<>> THEN 0 ELSE CharCode(Head(text)) + 14 * TextHash(Tail(text))

(***************************************************************************)
(* STTMixin._is_audio_artifact (models/stt.py:37-97).                      *)
(***************************************************************************)
\* Config.AUDIO_ARTIFACT_PATTERNS (settings.py:177-180), the patterns over
\* the model's alphabet
AUDIO_ARTIFACT_PATTERNS == {<<".", ".", ".">>, <<"[", "u", "m", "]">>}

\* str.split(): the maximal runs of non-blank characters
RECURSIVE Split(_)
Split(text) ==
    LET t == LStrip(text)
        RECURSIVE WordEnd(_)
        WordEnd(i) == IF i < Len(t) /\ t[i + 1] # " " THEN WordEnd(i + 1) ELSE i
    IN  IF t = <<>> THEN <<>>
        ELSE <<SubSeq(t, 1, WordEnd(1))>> \o Split(SubSeq(t, WordEnd(1) + 1, Len(t)))

\* set(words)
SetOf(words) == {words[i] : i \in 1..Len(words)}

\* re.findall(r'(\S+)\.\.+', text): scanning from the left, at each position
\* \S+ takes the longest stretch of the non-blank run that is still followed
\* by two dots; the search goes on after the dots
RECURSIVE FindDotPattern(_)
FindDotPattern(text) ==
    LET RECURSIVE RunEnd(_)
        RunEnd(i) == IF i < Len(text) /\ text[i + 1] # " " THEN RunEnd(i + 1) ELSE i
        e == RunEnd(1)
        dots == {j \in 2..(e - 1) : text[j] = "." /\ text[j + 1] = "."}
        j == CHOOSE k \in dots : \A m \in dots : m <= k
        RECURSIVE DotsEnd(_)
        DotsEnd(i) == IF i < Len(text) /\ text[i + 1] = "." THEN DotsEnd(i + 1) ELSE i
    IN  IF text = <<>> THEN <<>>
        ELSE IF text[1] = " " \/ dots = {} THEN FindDotPattern(Tail(text))
        ELSE <<SubSeq(text, 1, j - 1)>>
             \o FindDotPattern(SubSeq(text, DotsEnd(j) + 1, Len(text)))

\* char_counts: the characters other than blank and dot, with their counts
CountedChars(text) == {text[i] : i \in {k \in 1..Len(text) : text[k] \notin {" ", "."}}}
CharCount(text, ch) == Cardinality({i \in 1..Len(text) : text[i] = ch})

\* lines 59-62: a single word repeated five times or more
RepeatedWord(words) == Len(words) >= 5 /\ Cardinality(SetOf(words)) = 1

\* lines 64-69: at most two different words in six words or more
RepeatedPair(words) ==
    Len(words) >= 4 /\ Cardinality(SetOf(words)) <= 2 /\ Len(words) >= 6

\* lines 71-76: "X.. X.. X.."
RepeatedDots(text_lower) ==
    LET dot_pattern == FindDotPattern(text_lower)
    IN  Len(dot_pattern) >= 3 /\ Cardinality(SetOf(dot_pattern)) = 1

\* lines 78-89: one character is more than 60% of the counted characters
RepeatedChar(text_lower) ==
    /\ Len(text_lower) >= 10
    /\ CountedChars(text_lower) # {}
    /\ \E ch \in CountedChars(text_lower) :
          /\ \A other \in CountedChars(text_lower) :
                CharCount(text_lower, other) <= CharCount(text_lower, ch)
          /\ 10 * CharCount(text_lower, ch) >
                6 * Cardinality({i \in 1..Len(text_lower) : text_lower[i] \notin {" ", "."}})

\* lines 91-95: a long text of very few different characters
FewChars(text_lower) ==
    Len(text_lower) >= 50 /\ Cardinality(CountedChars(text_lower)) <= 3

is_audio_artifact(text) ==
    LET text_lower == Strip(Lower(text))
        words == Split(text_lower)
    IN  IF text = <<>> THEN FALSE
        ELSE \/ text_lower \in AUDIO_ARTIFACT_PATTERNS
             \/ RepeatedWord(words)
             \/ RepeatedPair(words)
             \/ RepeatedDots(text_lower)
             \/ RepeatedChar(text_lower)
             \/ FewChars(text_lower)

(***************************************************************************)
(* Finite maps (python dicts).                                             *)
(***************************************************************************)
EmptyMap == [x \in {} |-> None]
Put(f, k, v) == [x \in (DOMAIN f) \cup {k} |-> IF x = k THEN v ELSE f[x]]
Del(f, k) == [x \in (DOMAIN f) \ {k} |-> f[x]]

(***************************************************************************)
(* State.                                                                  *)
(***************************************************************************)
VARIABLES
    now,                \* time.time(), in seconds
    next_sweep,         \* when the sweeper's time.sleep() ends
    stt_cache,          \* room_id -> speaker_id -> audio_hash -> CacheEntry
    translation_cache,  \* cache_key -> CacheEntry
    tts_cache,          \* cache_key -> CacheEntry
    pending_requests,   \* cache_key -> threading.Event
    event_set,          \* the Events on which set() has been called
    cache_lock,         \* who holds RoomCacheManager._cache_lock, and for which block
    pc,                 \* where each caller is inside a get_or_create call
    req,                \* the arguments of each caller's current call
    ev,                 \* the Event a waiter captured (local `event`)
    wait_from,          \* when the waiter started event.wait()
    tmp,                \* what the compute function returned
    res,                \* what the call returns
    prev,               \* what the caller's previous call returned
    ncalls,             \* number of calls a caller has started
    failed,             \* keys for which some compute failed (history)
    workload,           \* which get_or_create the client threads exercise
    room_listeners,     \* room_id -> target_lang -> set of listener ids
    sessions,           \* ConversationServicer.sessions: the live session ids
    participants,       \* session -> participant_id -> Participant
    primary_strategy,   \* session -> BufferingStrategy
    upd,                \* the UpdateParticipantSettings call in progress
    nupd,               \* number of UpdateParticipantSettings calls started
    chunks_processed,   \* session -> state.chunks_processed
    sentences_completed,\* session -> state.sentences_completed
    seen,               \* the settings S has had since its last segment began (history)
    hpc,                \* where the handler is inside process_audio_parallel
    utt,                \* the locals of the process_audio_parallel call
    scan,               \* position of get_target_languages in the participants
    task,               \* worker -> the translate_single / synthesize_single it runs
    translation_results,\* translate_parallel's `results`
    tts_results,        \* synthesize_parallel's `results`, then the ones not yet sent
    responses,          \* the responses the call has yielded, in order
    at_snapshot,        \* the settings S had while get_target_languages ran (history)
    at_emit,            \* the participants when the transcript was yielded (history)
    submitted,          \* the languages a translation task was submitted for (history)
    trans_out,          \* language -> how its translation ended (history)
    tts_out,            \* language -> how its TTS ended (history)
    stream,             \* stream -> the locals of its StreamChat call and its session object
    yielded,            \* stream -> the responses StreamChat has yielded, in order
    heard,              \* the text the STT engine produced (result_text)
    verdict             \* what _is_audio_artifact said about it

cacheVars == <<now, next_sweep, stt_cache, translation_cache, tts_cache,
               pending_requests, event_set, cache_lock>>
callVars == <<pc, req, ev, wait_from, tmp, res, prev, ncalls, failed, workload>>
regVars == <<room_listeners>>
sttVars == <<heard, verdict>>
sessVars == <<sessions, participants, primary_strategy, upd, nupd,
              chunks_processed, sentences_completed, seen>>
pipeVars == <<hpc, utt, scan, task, translation_results, tts_results, responses>>
histVars == <<at_snapshot, at_emit, submitted, trans_out, tts_out>>
\* what no cache operation touches
streamVars == <<stream, yielded>>
otherVars == <<regVars, sttVars, sessVars, pipeVars, histVars, streamVars>>
\* what UpdateParticipantSettings leaves alone besides the session map
updFrame == <<cacheVars, callVars, regVars, sttVars, streamVars, pipeVars, at_emit, submitted, trans_out,
              tts_out, chunks_processed, sentences_completed>>
vars == <<cacheVars, callVars, otherVars>>

(***************************************************************************)
(* CacheEntry (room_cache.py:21-29).                                       *)
(***************************************************************************)
CacheEntry(value, created_at) ==
    [value |-> value, created_at |-> created_at, ttl |-> CACHE_TTL_SECONDS]

\* an entry counted as expired already at the age of its TTL
is_expired_at_ttl(entry) == now - entry.created_at >= entry.ttl

is_expired(entry) == now - entry.created_at > entry.ttl

(***************************************************************************)
(* Cache keys.                                                             *)
(***************************************************************************)
\* cache_key = f"{room_id}:{speaker_id}:{audio_hash}"
SttKey(r) == <<r.room, r.speaker, make_audio_hash(r.audio)>>
\* the workloads in which the process is server_v10.py, whose own
\* RoomCacheManager (server_v10.py:338-561) serves its _process_audio
Monolith == {"translation_v10", "tts_v10"}

\* room_cache.py:199: cache_key = f"{room_id}:{source_lang}:{target_lang}:{hash(text)}"
TransKeyOfRoom(r) == <<r.room, r.src, r.tgt, TextHash(r.text)>>
\* server_v10.py:511: cache_key = f"{source_lang}:{target_lang}:{hash(text)}"
TransKeyV10(r) == <<r.src, r.tgt, TextHash(r.text)>>
TransKey(r) == IF workload \in Monolith THEN TransKeyV10(r) ELSE TransKeyOfRoom(r)

\* room_cache.py:229: cache_key = f"{room_id}:tts:{target_lang}:{hash(text)}"
TtsKeyOfRoom(r) == <<r.room, "tts", r.tgt, TextHash(r.text)>>
\* server_v10.py:541: cache_key = f"tts:{target_lang}:{hash(text)}"
TtsKeyV10(r) == <<"tts", r.tgt, TextHash(r.text)>>
TtsKey(r) == IF workload \in Monolith THEN TtsKeyV10(r) ELSE TtsKeyOfRoom(r)

KeyOf(r) ==
    CASE r.kind = "stt" -> SttKey(r)
      [] r.kind = "translation" -> TransKey(r)
      [] OTHER -> TtsKey(r)

\* room_id in stt_cache and speaker_id in stt_cache[room_id]
\*   and audio_hash in stt_cache[room_id][speaker_id]
SttHas(room, speaker, h) ==
    /\ room \in DOMAIN stt_cache
    /\ speaker \in DOMAIN stt_cache[room]
    /\ h \in DOMAIN stt_cache[room][speaker]

\* stt_cache[room_id][speaker_id][audio_hash] = entry  (nested defaultdicts)
SttPut(room, speaker, h, entry) ==
    LET byRoom == IF room \in DOMAIN stt_cache THEN stt_cache[room] ELSE EmptyMap
        bySpeaker == IF speaker \in DOMAIN byRoom THEN byRoom[speaker] ELSE EmptyMap
    IN  Put(stt_cache, room, Put(byRoom, speaker, Put(bySpeaker, h, entry)))

(***************************************************************************)
(* The opaque engines. Each returns its result for the input, or the empty *)
(* result its backend returns on failure, or raises.                       *)
(***************************************************************************)
Returns(v) == [raised |-> FALSE, value |-> v]
Raised == [raised |-> TRUE, value |-> <<>>]
NoOutcome == [raised |-> FALSE, value |-> <<>>]

\* what the audio says: a sentence, a filler word, a single character
SpokenText(audio) ==
    CASE audio = "a1" -> TextHi
      [] audio = "a2" -> <<" ", "U", "m">>
      [] OTHER -> <<"a">>

\* transcribe(audio, lang) -> (text, confidence)
TranscribeOk(audio) == <<SpokenText(audio), 90>>
TranscribeOutcomes(audio) ==
    {Returns(TranscribeOk(audio)), Returns(<<TextEmpty, 0>>), Raised}

LangChar(lang) ==
    CASE lang = "en" -> "e"
      [] lang = "ja" -> "j"
      [] OTHER -> "k"

\* translate(text, src, tgt) -> text
TranslateOk(text, src, tgt) == IF src = tgt THEN text ELSE <<LangChar(tgt)>> \o text
\* the engine may also render a sentence as a word that is a filler, or as
\* a single character after a blank
TranslateOutcomes(text, src, tgt) ==
    {Returns(TranslateOk(text, src, tgt)), Returns(<<"O", "k">>),
     Returns(<<" ", LangChar(tgt)>>), Returns(TextEmpty), Raised}

\* synthesize_speech(text, lang) -> (mp3 bytes, duration_ms)
SynthesizeOk(text, lang) == <<<<"mp3", lang, TextHash(text)>>, 8 * Len(text)>>
SynthesizeOutcomes(text, lang) ==
    {Returns(SynthesizeOk(text, lang)), Returns(<<<<>>, 0>>), Raised}

ComputeOk(r) ==
    CASE r.kind = "stt" -> TranscribeOk(r.audio)
      [] r.kind = "translation" -> TranslateOk(r.text, r.src, r.tgt)
      [] OTHER -> SynthesizeOk(r.text, r.tgt)

(***************************************************************************)
(* Results of a call, as its caller sees them.                             *)
(*   value, cached : the returned tuple                                    *)
(*   raised        : the call ended by an exception                        *)
(*   stale         : for a cached return, the entry read was older than    *)
(*                   CACHE_TTL_SECONDS when it was read under the lock     *)
(*   at            : for a computed return, the time of the store          *)
(***************************************************************************)
NoRes == [kind |-> None, key |-> <<>>, value |-> <<>>, cached |-> FALSE,
          raised |-> FALSE, stale |-> FALSE, at |-> 0]
NoReq == [kind |-> None, room |-> None, speaker |-> None, audio |-> None,
          text |-> TextEmpty, src |-> None, tgt |-> None]

Hit(c, entry) ==
    [kind |-> req[c].kind, key |-> KeyOf(req[c]), value |-> entry.value,
     cached |-> TRUE, raised |-> FALSE,
     stale |-> now - entry.created_at > CACHE_TTL_SECONDS, at |-> 0]
Miss(c, value) ==
    [kind |-> req[c].kind, key |-> KeyOf(req[c]), value |-> value,
     cached |-> FALSE, raised |-> FALSE, stale |-> FALSE, at |-> now]
Exc(c) ==
    [kind |-> req[c].kind, key |-> KeyOf(req[c]), value |-> <<>>,
     cached |-> FALSE, raised |-> TRUE, stale |-> FALSE, at |-> 0]

\* threading.Lock(): not held
NoLock == <<None, 0, None>>

\* the Event object a leader creates: threading.Event()
NewEvent(c) == <<c, ncalls[c]>>
NoEvent == <<None, 0>>

\* a compute that did not deliver the engine's result for the key
NoteFailure(c, out) ==
    IF out = Returns(ComputeOk(req[c])) THEN failed
    ELSE failed \cup {<<req[c].kind, KeyOf(req[c])>>}

(***************************************************************************)
(* RoomCacheManager.get_or_create_stt (room_cache.py:134-189).             *)
(***************************************************************************)
\* lines 145-157: first block under the lock
SttLookup(c) ==
    /\ pc[c] = "stt_lookup"
    /\ LET r == req[c]
           h == make_audio_hash(r.audio)
       IN  IF SttHas(r.room, r.speaker, h) /\ ~is_expired(stt_cache[r.room][r.speaker][h])
           THEN /\ res' = [res EXCEPT ![c] = Hit(c, stt_cache[r.room][r.speaker][h])]
                /\ pc' = [pc EXCEPT ![c] = "idle"]
                /\ UNCHANGED <<ev, wait_from>>
           ELSE IF SttKey(r) \in DOMAIN pending_requests
           THEN /\ ev' = [ev EXCEPT ![c] = pending_requests[SttKey(r)]]
                /\ wait_from' = [wait_from EXCEPT ![c] = now]
                /\ pc' = [pc EXCEPT ![c] = "stt_wait"]
                /\ UNCHANGED res
           ELSE /\ pc' = [pc EXCEPT ![c] = "stt_mark"]
                /\ UNCHANGED <<res, ev, wait_from>>
    /\ UNCHANGED <<cacheVars, req, tmp, prev, ncalls, failed, workload, otherVars>>

\* lines 160-161: event.wait(timeout=Config.STT_TIMEOUT) ends
SttWait(c) ==
    /\ pc[c] = "stt_wait"
    /\ \/ ev[c] \in event_set
       \/ now - wait_from[c] >= STT_TIMEOUT
    /\ pc' = [pc EXCEPT ![c] = "stt_recheck"]
    /\ UNCHANGED <<cacheVars, req, ev, wait_from, tmp, res, prev, ncalls, failed, workload, otherVars>>

\* lines 162-166: the waiter's re-check under the lock
SttRecheck(c) ==
    /\ pc[c] = "stt_recheck"
    /\ LET r == req[c]
           h == make_audio_hash(r.audio)
       IN  IF SttHas(r.room, r.speaker, h)
           THEN /\ res' = [res EXCEPT ![c] = Hit(c, stt_cache[r.room][r.speaker][h])]
                /\ pc' = [pc EXCEPT ![c] = "idle"]
                /\ ev' = [ev EXCEPT ![c] = NoEvent]
           ELSE /\ pc' = [pc EXCEPT ![c] = "stt_mark"]
                \* the local `event` lives until the call returns
                /\ UNCHANGED <<res, ev>>
    /\ wait_from' = [wait_from EXCEPT ![c] = 0]
    /\ UNCHANGED <<cacheVars, req, tmp, prev, ncalls, failed, workload, otherVars>>

\* lines 169-170: install a fresh Event under the key
SttMark(c) ==
    /\ pc[c] = "stt_mark"
    /\ pending_requests' = Put(pending_requests, SttKey(req[c]), NewEvent(c))
    /\ pc' = [pc EXCEPT ![c] = "stt_compute"]
    /\ UNCHANGED <<cache_lock, now, next_sweep, stt_cache, translation_cache, tts_cache, event_set,
                   req, ev, wait_from, tmp, res, prev, ncalls, failed, workload, otherVars>>

\* a call whose exception leaves it without the finally block
SttComputeNoFinally(c) ==
    /\ pc[c] = "stt_compute"
    /\ \E out \in TranscribeOutcomes(req[c].audio) :
          /\ tmp' = [tmp EXCEPT ![c] = IF out.raised THEN NoOutcome ELSE out]
          /\ failed' = NoteFailure(c, out)
          /\ IF out.raised
             THEN /\ res' = [res EXCEPT ![c] = Exc(c)]
                  /\ pc' = [pc EXCEPT ![c] = "idle"]
             ELSE /\ pc' = [pc EXCEPT ![c] = "stt_store"]
                  /\ UNCHANGED res
    /\ UNCHANGED <<cacheVars, req, ev, wait_from, prev, ncalls, workload, otherVars>>

\* line 174: transcribe_fn(audio_bytes) returns or raises
SttCompute(c) ==
    /\ pc[c] = "stt_compute"
    /\ \E out \in TranscribeOutcomes(req[c].audio) :
          /\ tmp' = [tmp EXCEPT ![c] = IF out.raised THEN NoOutcome ELSE out]
          /\ failed' = NoteFailure(c, out)
          /\ IF out.raised
             THEN /\ res' = [res EXCEPT ![c] = Exc(c)]
                  /\ pc' = [pc EXCEPT ![c] = "stt_finally"]
             ELSE /\ pc' = [pc EXCEPT ![c] = "stt_store"]
                  /\ UNCHANGED res
    /\ UNCHANGED <<cacheVars, req, ev, wait_from, prev, ncalls, workload, otherVars>>

\* lines 177-184: store the result, return (text, confidence, False)
SttStore(c) ==
    /\ pc[c] = "stt_store"
    /\ LET r == req[c]
       IN  stt_cache' = SttPut(r.room, r.speaker, make_audio_hash(r.audio),
                               CacheEntry(tmp[c].value, now))
    /\ tmp' = [tmp EXCEPT ![c] = NoOutcome]
    /\ res' = [res EXCEPT ![c] = Miss(c, tmp[c].value)]
    /\ pc' = [pc EXCEPT ![c] = "stt_finally"]
    /\ UNCHANGED <<cache_lock, now, next_sweep, translation_cache, tts_cache, pending_requests,
                   event_set, req, ev, wait_from, prev, ncalls, failed, workload, otherVars>>

\* a finally block that signals the Event under the key and leaves it there
SttFinallySetOnly(c) ==
    /\ pc[c] = "stt_finally"
    /\ LET key == SttKey(req[c])
       IN  IF key \in DOMAIN pending_requests
           THEN event_set' = event_set \cup {pending_requests[key]}
           ELSE UNCHANGED event_set
    /\ pc' = [pc EXCEPT ![c] = "idle"]
    /\ ev' = [ev EXCEPT ![c] = NoEvent]
    /\ UNCHANGED <<cache_lock, now, next_sweep, stt_cache, translation_cache, tts_cache, pending_requests,
                   req, wait_from, tmp, res, prev, ncalls, failed, workload, otherVars>>

\* lines 185-189: finally: set and delete whatever Event is under the key
SttFinally(c) ==
    /\ pc[c] = "stt_finally"
    /\ LET key == SttKey(req[c])
       IN  IF key \in DOMAIN pending_requests
           THEN /\ event_set' = event_set \cup {pending_requests[key]}
                /\ pending_requests' = Del(pending_requests, key)
           ELSE UNCHANGED <<event_set, pending_requests>>
    /\ pc' = [pc EXCEPT ![c] = "idle"]
    /\ ev' = [ev EXCEPT ![c] = NoEvent]
    /\ UNCHANGED <<cache_lock, now, next_sweep, stt_cache, translation_cache, tts_cache,
                   req, wait_from, tmp, res, prev, ncalls, failed, workload, otherVars>>

get_or_create_stt(c) ==
    \/ SttLookup(c)
    \/ SttWait(c)
    \/ SttRecheck(c)
    \/ SttMark(c)
    \/ SttCompute(c)
    \/ SttStore(c)
    \/ SttFinally(c)

(***************************************************************************)
(* RoomCacheManager.get_or_create_translation (room_cache.py:191-219).     *)
(***************************************************************************)
\* lines 201-206: lookup under the lock
TransLookup(c) ==
    /\ pc[c] = "trans_lookup"
    /\ LET key == TransKey(req[c])
       IN  IF key \in DOMAIN translation_cache /\ ~is_expired(translation_cache[key])
           THEN /\ res' = [res EXCEPT ![c] = Hit(c, translation_cache[key])]
                /\ pc' = [pc EXCEPT ![c] = "idle"]
           ELSE /\ pc' = [pc EXCEPT ![c] = "trans_compute"]
                /\ UNCHANGED res
    /\ UNCHANGED <<cacheVars, req, ev, wait_from, tmp, prev, ncalls, failed, workload, otherVars>>

\* line 209: translate_fn(text, source_lang, target_lang) returns or raises
TransCompute(c) ==
    /\ pc[c] = "trans_compute"
    /\ \E out \in TranslateOutcomes(req[c].text, req[c].src, req[c].tgt) :
          /\ tmp' = [tmp EXCEPT ![c] = IF out.raised THEN NoOutcome ELSE out]
          /\ failed' = NoteFailure(c, out)
          /\ IF out.raised
             THEN /\ res' = [res EXCEPT ![c] = Exc(c)]
                  /\ pc' = [pc EXCEPT ![c] = "idle"]
             ELSE /\ pc' = [pc EXCEPT ![c] = "trans_store"]
                  /\ UNCHANGED res
    /\ UNCHANGED <<cacheVars, req, ev, wait_from, prev, ncalls, workload, otherVars>>

\* a store that keeps no entry for an empty translation
TransStoreUnlessEmpty(c) ==
    /\ pc[c] = "trans_store"
    /\ translation_cache' = IF tmp[c].value = TextEmpty
                            THEN translation_cache
                            ELSE Put(translation_cache, TransKey(req[c]),
                                     CacheEntry(tmp[c].value, now))
    /\ tmp' = [tmp EXCEPT ![c] = NoOutcome]
    /\ res' = [res EXCEPT ![c] = Miss(c, tmp[c].value)]
    /\ pc' = [pc EXCEPT ![c] = "idle"]
    /\ UNCHANGED <<cache_lock, now, next_sweep, stt_cache, tts_cache, pending_requests, event_set,
                   req, ev, wait_from, prev, ncalls, failed, workload, otherVars>>
\* lines 212-219: store the result, return (translated, False)
TransStore(c) ==
    /\ pc[c] = "trans_store"
    /\ translation_cache' = Put(translation_cache, TransKey(req[c]),
                                CacheEntry(tmp[c].value, now))
    /\ tmp' = [tmp EXCEPT ![c] = NoOutcome]
    /\ res' = [res EXCEPT ![c] = Miss(c, tmp[c].value)]
    /\ pc' = [pc EXCEPT ![c] = "idle"]
    /\ UNCHANGED <<cache_lock, now, next_sweep, stt_cache, tts_cache, pending_requests, event_set,
                   req, ev, wait_from, prev, ncalls, failed, workload, otherVars>>

get_or_create_translation(c) ==
    \/ TransLookup(c)
    \/ TransCompute(c)
    \/ TransStore(c)

(***************************************************************************)
(* RoomCacheManager.get_or_create_tts (room_cache.py:221-249).             *)
(***************************************************************************)
\* lines 231-236: lookup under the lock
TtsLookup(c) ==
    /\ pc[c] = "tts_lookup"
    /\ LET key == TtsKey(req[c])
       IN  IF key \in DOMAIN tts_cache /\ ~is_expired(tts_cache[key])
           THEN /\ res' = [res EXCEPT ![c] = Hit(c, tts_cache[key])]
                /\ pc' = [pc EXCEPT ![c] = "idle"]
           ELSE /\ pc' = [pc EXCEPT ![c] = "tts_compute"]
                /\ UNCHANGED res
    /\ UNCHANGED <<cacheVars, req, ev, wait_from, tmp, prev, ncalls, failed, workload, otherVars>>

\* line 239: synthesize_fn(text, target_lang) returns or raises
TtsCompute(c) ==
    /\ pc[c] = "tts_compute"
    /\ \E out \in SynthesizeOutcomes(req[c].text, req[c].tgt) :
          /\ tmp' = [tmp EXCEPT ![c] = IF out.raised THEN NoOutcome ELSE out]
          /\ failed' = NoteFailure(c, out)
          /\ IF out.raised
             THEN /\ res' = [res EXCEPT ![c] = Exc(c)]
                  /\ pc' = [pc EXCEPT ![c] = "idle"]
             ELSE /\ pc' = [pc EXCEPT ![c] = "tts_store"]
                  /\ UNCHANGED res
    /\ UNCHANGED <<cacheVars, req, ev, wait_from, prev, ncalls, workload, otherVars>>

\* lines 242-249: store the result, return (audio_bytes, duration_ms, False)
TtsStore(c) ==
    /\ pc[c] = "tts_store"
    /\ tts_cache' = Put(tts_cache, TtsKey(req[c]), CacheEntry(tmp[c].value, now))
    /\ tmp' = [tmp EXCEPT ![c] = NoOutcome]
    /\ res' = [res EXCEPT ![c] = Miss(c, tmp[c].value)]
    /\ pc' = [pc EXCEPT ![c] = "idle"]
    /\ UNCHANGED <<cache_lock, now, next_sweep, stt_cache, translation_cache, pending_requests,
                   event_set, req, ev, wait_from, prev, ncalls, failed, workload, otherVars>>

get_or_create_tts(c) ==
    \/ TtsLookup(c)
    \/ TtsCompute(c)
    \/ TtsStore(c)

(***************************************************************************)
(* The sweeper (room_cache.py:74-106) and the clock.                       *)
(***************************************************************************)
\* a sweep that also drops the entries whose age equals their TTL
LiveBeforeTtl(cache) == {k \in DOMAIN cache : ~is_expired_at_ttl(cache[k])}
Live(cache) == {k \in DOMAIN cache : ~is_expired(cache[k])}
Restrict(cache, keys) == [k \in keys |-> cache[k]]

\* _cleanup_expired, lines 80-106, entirely under the lock; the emptied
\* per-room and per-speaker dicts of stt_cache stay
cleanup_expired ==
    /\ now >= next_sweep
    /\ stt_cache' =
          [room \in DOMAIN stt_cache |->
              [speaker \in DOMAIN stt_cache[room] |->
                  Restrict(stt_cache[room][speaker], Live(stt_cache[room][speaker]))]]
    /\ translation_cache' = Restrict(translation_cache, Live(translation_cache))
    /\ tts_cache' = Restrict(tts_cache, Live(tts_cache))
    \* _cleanup_loop, lines 76-78: sleep again
    /\ next_sweep' = now + CACHE_CLEANUP_INTERVAL
    /\ UNCHANGED <<cache_lock, now, pending_requests, event_set, callVars, otherVars>>

Tick ==
    /\ now + TickStep <= MaxTime
    /\ now' = now + TickStep
    /\ UNCHANGED <<cache_lock, next_sweep, stt_cache, translation_cache, tts_cache,
                   pending_requests, event_set, callVars, otherVars>>

(***************************************************************************)
(* Client threads calling the cache directly.                              *)
(***************************************************************************)
CallRooms == {"r1"}
CallSpeakers == {"s1"}
CallAudios == {"a1"}
CallTexts == {TextHi}
CallSources == {"ko"}
CallTargets == {"en"}

Requests ==
    [kind : {"stt"}, room : CallRooms, speaker : CallSpeakers, audio : CallAudios,
     text : {TextEmpty}, src : {None}, tgt : {None}]
    \cup
    [kind : {"translation"}, room : CallRooms, speaker : {None}, audio : {None},
     text : CallTexts, src : CallSources, tgt : CallTargets]
    \cup
    [kind : {"tts"}, room : CallRooms, speaker : {None}, audio : {None},
     text : CallTexts, src : {None}, tgt : CallTargets]

EntryPoint(kind) ==
    CASE kind = "stt" -> "stt_lookup"
      [] kind = "translation" -> "trans_lookup"
      [] OTHER -> "tts_lookup"

\* a thread that is not inside a call starts its next call
StartCall(c) ==
    /\ pc[c] = "idle"
    /\ ncalls[c] < MaxCalls
    /\ \E r \in {q \in Requests : q.kind = workload} :
          /\ req' = [req EXCEPT ![c] = r]
          /\ pc' = [pc EXCEPT ![c] = EntryPoint(r.kind)]
    /\ ncalls' = [ncalls EXCEPT ![c] = @ + 1]
    /\ prev' = [prev EXCEPT ![c] = res[c]]
    /\ res' = [res EXCEPT ![c] = NoRes]
    /\ UNCHANGED <<cacheVars, ev, wait_from, tmp, failed, workload, otherVars>>

(***************************************************************************)
(* RoomCacheManager._cache_lock (room_cache.py:65) and its `with` blocks.  *)
(* A thread that has taken the lock for the block at pc[c] holds it until  *)
(* that block has run; the sweeper holds it for one _cleanup_expired.      *)
(***************************************************************************)
Sweeper == "sweeper"

\* the positions from which a `with self._cache_lock:` block is entered
\* (lines 146, 162, 169, 177, 186, 201, 212, 231, 242), with the blocks
\* extended over the compute calls for comparison
WithBlocksAndCompute ==
    {"stt_lookup", "stt_recheck", "stt_mark", "stt_store", "stt_finally",
     "trans_lookup", "trans_store", "tts_lookup", "tts_store",
     "stt_compute", "trans_compute", "tts_compute"}
WithBlocks ==
    {"stt_lookup", "stt_recheck", "stt_mark", "stt_store", "stt_finally",
     "trans_lookup", "trans_store", "tts_lookup", "tts_store"}

\* where a thread is inside a compute function or inside event.wait()
Blocking == {"stt_wait", "stt_compute", "trans_compute", "tts_compute"}

LockHeldBy(c) == cache_lock = <<c, ncalls[c], pc[c]>>
LockHeldBySweeper == cache_lock = <<Sweeper, next_sweep, "sweep">>
LockFree ==
    /\ ~LockHeldBySweeper
    /\ \A c \in Callers : ~LockHeldBy(c)

lockFrame == <<now, next_sweep, stt_cache, translation_cache, tts_cache,
               pending_requests, event_set, callVars, otherVars>>

\* __enter__ of a `with self._cache_lock:` block of a get_or_create call
Acquire(c) ==
    /\ pc[c] \in WithBlocks
    /\ LockFree
    /\ cache_lock' = <<c, ncalls[c], pc[c]>>
    /\ UNCHANGED lockFrame

\* line 82: the sweeper, awake again, takes the lock
SweeperAcquire ==
    /\ now >= next_sweep
    /\ LockFree
    /\ cache_lock' = <<Sweeper, next_sweep, "sweep">>
    /\ UNCHANGED lockFrame

\* the body of the block a thread holds the lock for; leaving the block
\* releases the lock
UnderLock(c) ==
    /\ LockHeldBy(c)
    /\ \/ SttLookup(c)
       \/ SttRecheck(c)
       \/ SttMark(c)
       \/ SttStore(c)
       \/ SttFinally(c)
       \/ TransLookup(c)
       \/ TransStore(c)
       \/ TtsLookup(c)
       \/ TtsStore(c)

\* the statements of the get_or_create calls outside every `with` block:
\* event.wait (line 161) and the compute calls (lines 174, 209, 239)
OutsideLock(c) ==
    \/ SttWait(c)
    \/ SttCompute(c)
    \/ TransCompute(c)
    \/ TtsCompute(c)

(***************************************************************************)
(* Session state (server_v10.py:698-759).                                  *)
(***************************************************************************)
SessionRoom(s) == IF s = "s2" THEN "r2" ELSE "r1"
SpeakerId(s) == "spk"
\* state.speaker.source_language
SourceLanguage(s) == IF s = "s3" THEN "en" ELSE "ko"

\* the participants dict keeps the order of session_init
PidOrder == <<"p1", "p2">>
Pids == {PidOrder[i] : i \in 1..Len(PidOrder)}
Participant(lang, enabled) == [target_language |-> lang, translation_enabled |-> enabled]

\* the listeners of a session after its session_init (server_v10.py:1426-1436)
InitialParticipants ==
    {[p \in Pids |-> IF p = "p1" THEN Participant("en", TRUE) ELSE second] :
        second \in {Participant("en", TRUE), Participant("ja", TRUE),
                    Participant("ja", FALSE)}}

\* SessionState.get_target_languages, lines 736-741, on unchanging settings
TargetLanguages(ps, source) ==
    {ps[p].target_language :
        p \in {q \in DOMAIN ps : ps[q].translation_enabled /\ ps[q].target_language # source}}

RECURSIVE FilterPids(_, _, _)
FilterPids(order, ps, lang) ==
    IF order = <<>> THEN <<>>
    ELSE LET p == Head(order)
             rest == FilterPids(Tail(order), ps, lang)
         IN  IF ps[p].translation_enabled /\ ps[p].target_language = lang
             THEN <<p>> \o rest
             ELSE rest

\* SessionState.get_participants_by_target_language, lines 743-747, on
\* unchanging settings
ParticipantsByTargetLanguage(ps, lang) == FilterPids(PidOrder, ps, lang)

\* LanguageTopology.WORD_ORDER_GROUPS.get(lang, "SVO"), lines 573-582
WordOrderGroup(lang) ==
    CASE lang \in {"ko", "ja", "tr", "hi", "bn"} -> "SOV"
      [] lang \in {"ar", "he"} -> "VSO"
      [] OTHER -> "SVO"

\* LanguageTopology.get_strategy, lines 584-591
get_strategy(source, target) ==
    IF WordOrderGroup(source) = WordOrderGroup(target) THEN "chunk" ELSE "sentence"

\* a strategy that is sentence-based only when every target language asks for it
determine_primary_strategy_every(ps, source) ==
    IF TargetLanguages(ps, source) # {}
       /\ \A t \in TargetLanguages(ps, source) : get_strategy(source, t) = "sentence"
    THEN "sentence"
    ELSE "chunk"
\* SessionState.determine_primary_strategy, lines 749-758
determine_primary_strategy(ps, source) ==
    IF \E t \in TargetLanguages(ps, source) : get_strategy(source, t) = "sentence"
    THEN "sentence"
    ELSE "chunk"

(***************************************************************************)
(* ConversationServicer.UpdateParticipantSettings (server_v10.py:1786-1804)*)
(* The loop runs under self.lock, which no reader of the participants      *)
(* takes: the two attribute writes are separate steps for every reader.    *)
(***************************************************************************)
UpdRooms == {"r1"}
\* a listener of the session, and a participant id no session holds
UpdPids == {"p2", "p9"}
UpdateRequests ==
    [room_id : UpdRooms, participant_id : UpdPids, target_language : Languages,
     translation_enabled : BOOLEAN]

NoUpdateRequest ==
    [room_id |-> None, participant_id |-> None, target_language |-> None,
     translation_enabled |-> FALSE]
\* before: the session map as the call found it (history)
NoUpdate ==
    [at |-> "idle", request |-> NoUpdateRequest, todo |-> <<>>, updated |-> FALSE,
     before |-> [sessions |-> {}, participants |-> EmptyMap, primary_strategy |-> EmptyMap]]

\* the sessions in the order of self.sessions.values()
RECURSIVE SeqOfSet(_)
SeqOfSet(items) ==
    IF items = {} THEN <<>>
    ELSE LET x == CHOOSE y \in items : TRUE IN <<x>> \o SeqOfSet(items \ {x})

\* history: the settings of S after a write, for the segment in flight and
\* for the get_target_languages in progress
Observe(written) ==
    /\ seen' = seen \cup {written[s] : s \in {S} \cap sessions}
    /\ at_snapshot' =
          IF hpc \in {"gtl_enabled", "gtl_compare", "gtl_add"}
          THEN at_snapshot \cup {written[S]}
          ELSE at_snapshot

\* a test that looks for the participant in the sessions of every room
SessionHasParticipant(s, request) ==
    request.participant_id \in DOMAIN participants[s]
\* line 1794: session.room_id == room_id and participant_id in session.participants
SessionMatches(s, request) ==
    /\ SessionRoom(s) = request.room_id
    /\ request.participant_id \in DOMAIN participants[s]

\* lines 1788-1793: the call starts, takes self.lock, begins the loop
UpdateBegin ==
    /\ upd.at = "idle"
    /\ nupd < MaxUpdates
    /\ \E request \in UpdateRequests :
          upd' = [at |-> "loop", request |-> request, todo |-> SeqOfSet(sessions),
                  updated |-> FALSE,
                  before |-> [sessions |-> sessions, participants |-> participants,
                              primary_strategy |-> primary_strategy]]
    /\ nupd' = nupd + 1
    /\ UNCHANGED <<sessions, participants, primary_strategy>>
    /\ UNCHANGED <<updFrame, seen, at_snapshot>>

\* line 1794 false: the session is in another room or lacks the participant
UpdateSkip ==
    /\ upd.at = "loop"
    /\ upd.todo # <<>>
    /\ ~SessionMatches(Head(upd.todo), upd.request)
    /\ upd' = [upd EXCEPT !.todo = Tail(@)]
    /\ UNCHANGED <<sessions, participants, primary_strategy, nupd>>
    /\ UNCHANGED <<updFrame, seen, at_snapshot>>

\* lines 1794-1796: p.target_language = request.target_language
UpdateWriteLanguage ==
    /\ upd.at = "loop"
    /\ upd.todo # <<>>
    /\ SessionMatches(Head(upd.todo), upd.request)
    /\ participants' =
          [participants EXCEPT ![Head(upd.todo)][upd.request.participant_id].target_language =
              upd.request.target_language]
    /\ upd' = [upd EXCEPT !.at = "enabled"]
    /\ Observe(participants')
    /\ UNCHANGED <<sessions, primary_strategy, nupd>>
    /\ UNCHANGED updFrame

\* lines 1797-1799: p.translation_enabled = ...; determine_primary_strategy()
UpdateWriteEnabled ==
    /\ upd.at = "enabled"
    /\ LET s == Head(upd.todo)
           ps == [participants[s] EXCEPT
                     ![upd.request.participant_id].translation_enabled =
                         upd.request.translation_enabled]
       IN  /\ participants' = [participants EXCEPT ![s] = ps]
           /\ primary_strategy' =
                 [primary_strategy EXCEPT ![s] =
                     determine_primary_strategy(ps, SourceLanguage(s))]
    /\ upd' = [upd EXCEPT !.at = "loop", !.todo = Tail(@), !.updated = TRUE]
    /\ Observe(participants')
    /\ UNCHANGED <<sessions, nupd>>
    /\ UNCHANGED updFrame

\* lines 1801-1804: the loop is over, the lock is released, the call returns
UpdateReturn ==
    /\ upd.at = "loop"
    /\ upd.todo = <<>>
    /\ upd' = NoUpdate
    /\ UNCHANGED <<sessions, participants, primary_strategy, nupd>>
    /\ UNCHANGED <<updFrame, seen, at_snapshot>>

UpdateParticipantSettings ==
    \/ UpdateBegin
    \/ UpdateSkip
    \/ UpdateWriteLanguage
    \/ UpdateWriteEnabled
    \/ UpdateReturn

(***************************************************************************)
(* The listener registry (room_cache.py:108-128).                          *)
(* room_listeners is a defaultdict of defaultdicts of sets: indexing it    *)
(* creates the room and the language.                                      *)
(***************************************************************************)
RegRooms == {"r1", "r2"}
RegLangs == {"en", "ja"}
Listeners == {"l1", "l2"}

LangsOf(room) == IF room \in DOMAIN room_listeners THEN room_listeners[room] ELSE EmptyMap
ListenersOf(room, lang) ==
    IF lang \in DOMAIN LangsOf(room) THEN LangsOf(room)[lang] ELSE {}

\* room_listeners[room_id][target_lang] evaluated on the defaultdicts
Touch(room, lang, members) ==
    Put(room_listeners, room, Put(LangsOf(room), lang, members))

\* the registry after line 111 on the registry reg
Registered(reg, room, listener, lang) ==
    LET langs == IF room \in DOMAIN reg THEN reg[room] ELSE EmptyMap
        members == IF lang \in DOMAIN langs THEN langs[lang] ELSE {}
    IN  Put(reg, room, Put(langs, lang, members \cup {listener}))

\* the registry after lines 121-123 on the registry reg
Unregistered(reg, room, listener, lang) ==
    IF room \in DOMAIN reg /\ lang \in DOMAIN reg[room]
    THEN Put(reg, room, Put(reg[room], lang, reg[room][lang] \ {listener}))
    ELSE reg

\* lines 108-117: self.room_listeners[room_id][target_lang].add(listener_id)
register_listener(room, listener, lang) ==
    /\ room_listeners' = Registered(room_listeners, room, listener, lang)
    /\ UNCHANGED <<cacheVars, callVars, sttVars, sessVars, pipeVars, histVars, streamVars>>

\* lines 119-123: discard, only where the room and the language exist
unregister_listener(room, listener, lang) ==
    /\ room_listeners' = Unregistered(room_listeners, room, listener, lang)
    /\ UNCHANGED <<cacheVars, callVars, sttVars, sessVars, pipeVars, histVars, streamVars>>

\* lines 125-128: returns a copy of the set; the lookup itself creates the
\* room and the language when they are missing
get_listeners_for_language(room, lang) ==
    /\ room_listeners' = Touch(room, lang, ListenersOf(room, lang))
    /\ UNCHANGED <<cacheVars, callVars, sttVars, sessVars, pipeVars, histVars, streamVars>>

(***************************************************************************)
(* RoomProcessor.process_audio_parallel (room_processor.py:247-401), the   *)
(* generator run by the handler of session S for one detached segment.     *)
(***************************************************************************)
\* the segments: a sentence, a filler word, a single character
Audios == {"a1", "a2", "a3"}

NoUtt == [audio |-> None, is_final |-> FALSE, stt_returned |-> FALSE, text |-> <<>>,
          confidence |-> 0, transcript_id |-> 0, target_languages |-> {}]
NoTask == [stage |-> "none", idx |-> 0, ids |-> <<>>, text |-> <<>>, audio |-> <<>>,
           duration_ms |-> 0, cached |-> FALSE, ok |-> FALSE]
NoSettings == EmptyMap
NoOutcomes == [lang \in Languages |-> "none"]

\* lines 300-319 and 347-366: ChatResponse(transcript=TranscriptResult(...))
TranscriptResponse(id, text, confidence, translations, is_final) ==
    [kind |-> "transcript", id |-> id, original_text |-> text,
     original_language |-> SourceLanguage(S), translations |-> translations,
     is_partial |-> ~is_final, is_final |-> is_final, confidence |-> confidence]

\* lines 337-344: TranslationEntry for one TranslationResult
TranslationEntry(r) ==
    [target_language |-> r.target_lang, translated_text |-> r.translated_text,
     target_participant_ids |-> r.target_participant_ids]

RECURSIVE MapEntries(_)
MapEntries(results) ==
    IF results = <<>> THEN <<>>
    ELSE <<TranslationEntry(Head(results))>> \o MapEntries(Tail(results))

\* the AudioResult of a later call: the id of the call after this one
AudioResponseOtherId(transcript_id, r) ==
    [kind |-> "audio", transcript_id |-> transcript_id + 1,
     target_language |-> r.target_lang,
     target_participant_ids |-> r.target_participant_ids,
     audio_data |-> r.audio_data, duration_ms |-> r.duration_ms]
\* lines 379-392: ChatResponse(audio=AudioResult(...))
AudioResponse(transcript_id, r) ==
    [kind |-> "audio", transcript_id |-> transcript_id,
     target_language |-> r.target_lang,
     target_participant_ids |-> r.target_participant_ids,
     audio_data |-> r.audio_data, duration_ms |-> r.duration_ms]

\* lines 260-286: statistics, then the call of get_or_create_stt
StartUtterance ==
    /\ hpc = "idle"
    /\ S \in sessions
    /\ chunks_processed[S] < MaxUtt
    /\ \E audio \in Audios, is_final \in BOOLEAN :
          /\ utt' = [NoUtt EXCEPT !.audio = audio, !.is_final = is_final]
          /\ sentences_completed' =
                [sentences_completed EXCEPT ![S] = IF is_final THEN @ + 1 ELSE @]
          /\ req' = [req EXCEPT ![Handler] =
                        [NoReq EXCEPT !.kind = "stt", !.room = SessionRoom(S),
                                      !.speaker = SpeakerId(S), !.audio = audio]]
    /\ chunks_processed' = [chunks_processed EXCEPT ![S] = @ + 1]
    /\ pc' = [pc EXCEPT ![Handler] = "stt_lookup"]
    /\ ncalls' = [ncalls EXCEPT ![Handler] = @ + 1]
    /\ hpc' = "stt"
    /\ responses' = <<>>
    /\ at_snapshot' = {}
    /\ at_emit' = NoSettings
    /\ submitted' = {}
    /\ trans_out' = NoOutcomes
    /\ tts_out' = NoOutcomes
    /\ seen' = {participants[S]}
    /\ UNCHANGED <<cacheVars, regVars, sttVars, streamVars, ev, wait_from, tmp, res, prev, failed, workload,
                   sessions, participants, primary_strategy, upd, nupd,
                   scan, task, translation_results, tts_results>>

\* a test that lets every text through
NoTextNever(text) == FALSE
\* line 291: not original_text
NoText(text) == text = <<>>

\* lines 281-323: get_or_create_stt has returned or raised
AfterStt ==
    /\ hpc = "stt"
    /\ pc[Handler] = "idle"
    /\ LET r == res[Handler]
       IN  IF r.raised
           THEN \* the exception leaves the generator
                /\ hpc' = "idle"
                /\ UNCHANGED <<utt, scan, responses, at_snapshot>>
           ELSE IF NoText(r.value[1])
           THEN \* lines 291-293
                /\ utt' = [utt EXCEPT !.stt_returned = TRUE, !.text = r.value[1],
                                      !.confidence = r.value[2]]
                /\ hpc' = "idle"
                /\ UNCHANGED <<scan, responses, at_snapshot>>
           ELSE IF IsFiller(r.value[1])
           THEN \* lines 296-320
                /\ responses' = Append(responses, TranscriptResponse(chunks_processed[S], r.value[1],
                                                         r.value[2], <<>>, TRUE))
                /\ utt' = [utt EXCEPT !.stt_returned = TRUE, !.text = r.value[1],
                                      !.confidence = r.value[2],
                                      !.transcript_id = chunks_processed[S]]
                /\ hpc' = "idle"
                /\ UNCHANGED <<scan, at_snapshot>>
           ELSE \* lines 322-323: a fresh id, then state.get_target_languages()
                /\ utt' = [utt EXCEPT !.stt_returned = TRUE, !.text = r.value[1],
                                      !.confidence = r.value[2],
                                      !.transcript_id = chunks_processed[S]]
                /\ scan' = 1
                /\ at_snapshot' = {participants[S]}
                /\ hpc' = "gtl_enabled"
                /\ UNCHANGED responses
    /\ res' = [res EXCEPT ![Handler] = NoRes]
    /\ req' = [req EXCEPT ![Handler] = NoReq]
    /\ UNCHANGED <<cacheVars, regVars, sttVars, streamVars, sessVars, pc, ev, wait_from, tmp, prev, ncalls,
                   failed, workload, task, translation_results, tts_results,
                   at_emit, submitted, trans_out, tts_out>>

(***************************************************************************)
(* SessionState.get_target_languages (server_v10.py:736-741) as the        *)
(* handler runs it: each attribute read is a step of its own, the          *)
(* participants being written by UpdateParticipantSettings meanwhile.      *)
(***************************************************************************)
\* the for loop goes to the next participant, or the set is returned
GtlAdvance ==
    IF scan < Len(PidOrder)
    THEN /\ scan' = scan + 1
         /\ hpc' = "gtl_enabled"
    ELSE /\ scan' = 0
         /\ hpc' = "translate"

gtlFrame == <<cacheVars, callVars, regVars, sttVars, streamVars, sessVars, task, translation_results,
              tts_results, responses, histVars>>

\* line 739: p.translation_enabled
GtlReadEnabled ==
    /\ hpc = "gtl_enabled"
    /\ IF participants[S][PidOrder[scan]].translation_enabled
       THEN /\ hpc' = "gtl_compare"
            /\ UNCHANGED scan
       ELSE GtlAdvance
    /\ UNCHANGED <<utt, gtlFrame>>

\* line 739: p.target_language != self.speaker.source_language
GtlCompareLanguage ==
    /\ hpc = "gtl_compare"
    /\ IF participants[S][PidOrder[scan]].target_language # SourceLanguage(S)
       THEN /\ hpc' = "gtl_add"
            /\ UNCHANGED scan
       ELSE GtlAdvance
    /\ UNCHANGED <<utt, gtlFrame>>

\* line 740: languages.add(p.target_language)
GtlAddLanguage ==
    /\ hpc = "gtl_add"
    /\ utt' = [utt EXCEPT !.target_languages =
                  @ \cup {participants[S][PidOrder[scan]].target_language}]
    /\ GtlAdvance
    /\ UNCHANGED gtlFrame

get_target_languages ==
    \/ GtlReadEnabled
    \/ GtlCompareLanguage
    \/ GtlAddLanguage

(***************************************************************************)
(* RoomProcessor.translate_parallel (room_processor.py:91-164).            *)
(***************************************************************************)
TranslationResult(lang, t) ==
    [target_lang |-> lang, translated_text |-> t.text,
     target_participant_ids |-> t.ids, cached |-> t.cached]

\* lines 110-115 and 144: the early return, or one task per target language
TranslateBegin ==
    /\ hpc = "translate"
    /\ IF utt.target_languages = {} \/ Len(Strip(utt.text)) <= 1
       THEN /\ hpc' = "transcript"
            /\ UNCHANGED <<task, req, pc, submitted>>
       ELSE /\ task' = [w \in Workers |->
                          IF LangOf(w) \in utt.target_languages
                          THEN [NoTask EXCEPT !.stage = "trans_call"]
                          ELSE task[w]]
            /\ req' = [c \in Callers |->
                         IF c \in Workers /\ LangOf(c) \in utt.target_languages
                         THEN [NoReq EXCEPT !.kind = "translation", !.room = SessionRoom(S),
                                            !.text = utt.text, !.src = SourceLanguage(S),
                                            !.tgt = LangOf(c)]
                         ELSE req[c]]
            /\ pc' = [c \in Callers |->
                        IF c \in Workers /\ LangOf(c) \in utt.target_languages
                        THEN "trans_lookup"
                        ELSE pc[c]]
            /\ submitted' = utt.target_languages
            /\ hpc' = "trans_wait"
    /\ translation_results' = <<>>
    /\ UNCHANGED <<cacheVars, regVars, sttVars, streamVars, sessVars, ev, wait_from, tmp, res, prev, ncalls,
                   failed, workload, utt, scan, tts_results, responses,
                   at_snapshot, at_emit, trans_out, tts_out>>

workerFrame == <<cacheVars, regVars, sttVars, streamVars, sessVars, pc, ev, wait_from, tmp, prev, ncalls,
                 failed, workload, hpc, utt, scan, translation_results, tts_results,
                 responses, at_snapshot, at_emit, submitted>>

\* translate_single, lines 123-131 and 139-141: get_or_create_translation has
\* returned or raised
TranslateSingleReturned(w) ==
    /\ task[w].stage = "trans_call"
    /\ pc[w] = "idle"
    /\ LET r == res[w]
       IN  IF r.raised \/ r.value = <<>>
           THEN /\ task' = [task EXCEPT ![w] = [NoTask EXCEPT !.stage = "trans_done"]]
                /\ trans_out' = [trans_out EXCEPT ![LangOf(w)] = "failed"]
           ELSE /\ task' = [task EXCEPT ![w] =
                              [NoTask EXCEPT !.stage = "read_enabled", !.idx = 1,
                                             !.text = r.value, !.cached = r.cached]]
                /\ trans_out' = [trans_out EXCEPT ![LangOf(w)] = "ok"]
    /\ res' = [res EXCEPT ![w] = NoRes]
    /\ req' = [req EXCEPT ![w] = NoReq]
    /\ UNCHANGED <<workerFrame, tts_out>>

\* the list comprehension of get_participants_by_target_language goes to the
\* next participant, or translate_single returns its TranslationResult
ReadAdvance(w, ids) ==
    IF task[w].idx < Len(PidOrder)
    THEN task' = [task EXCEPT ![w].stage = "read_enabled", ![w].idx = @ + 1, ![w].ids = ids]
    ELSE task' = [task EXCEPT ![w].stage = "trans_done", ![w].idx = 0, ![w].ids = ids,
                              ![w].ok = TRUE]

\* line 132 calling server_v10.py:746: p.translation_enabled
ReadEnabled(w) ==
    /\ task[w].stage = "read_enabled"
    /\ IF participants[S][PidOrder[task[w].idx]].translation_enabled
       THEN task' = [task EXCEPT ![w].stage = "read_language"]
       ELSE ReadAdvance(w, task[w].ids)
    /\ UNCHANGED <<workerFrame, req, res, trans_out, tts_out>>

\* server_v10.py:746: p.target_language == target_lang
ReadLanguage(w) ==
    /\ task[w].stage = "read_language"
    /\ IF participants[S][PidOrder[task[w].idx]].target_language = LangOf(w)
       THEN ReadAdvance(w, Append(task[w].ids, PidOrder[task[w].idx]))
       ELSE ReadAdvance(w, task[w].ids)
    /\ UNCHANGED <<workerFrame, req, res, trans_out, tts_out>>

get_participants_by_target_language(w) ==
    \/ ReadEnabled(w)
    \/ ReadLanguage(w)

\* the loop ends with the first finished future
FirstTaskDone(w) == TRUE
\* the as_completed loop is over when no future is left
NoTaskLeft(w) == \A v \in Workers \ {w} : task[v].stage = "none"

collectFrame == <<cacheVars, callVars, regVars, sttVars, streamVars, sessVars, utt, scan, responses, histVars>>

\* lines 146-155: as_completed hands over a finished translate_single
CollectTranslation(w) ==
    /\ hpc = "trans_wait"
    /\ task[w].stage = "trans_done"
    /\ translation_results' =
          IF task[w].ok
          THEN Append(translation_results, TranslationResult(LangOf(w), task[w]))
          ELSE translation_results
    /\ task' = [task EXCEPT ![w] = NoTask]
    /\ hpc' = IF NoTaskLeft(w) THEN "transcript" ELSE hpc
    /\ UNCHANGED <<collectFrame, tts_results>>

\* lines 337-366: the transcript is yielded
EmitTranscript ==
    /\ hpc = "transcript"
    /\ responses' = Append(responses,
                           TranscriptResponse(utt.transcript_id, utt.text, utt.confidence,
                                              MapEntries(translation_results), utt.is_final))
    /\ at_emit' = participants[S]
    /\ hpc' = "synthesize"
    /\ UNCHANGED <<cacheVars, callVars, regVars, sttVars, streamVars, sessVars, utt, scan, task,
                   translation_results, tts_results, at_snapshot, submitted,
                   trans_out, tts_out>>

(***************************************************************************)
(* RoomProcessor.synthesize_parallel (room_processor.py:166-245).          *)
(***************************************************************************)
\* a filter that asks no minimum length of the text
TtsCandidateAnyLength(t) ==
    /\ Strip(Lower(t.translated_text)) \notin FILLER_WORDS
    /\ Strip(t.translated_text) \notin FILLER_WORDS

\* lines 189-194: the translations that get a TTS
TtsCandidate(t) ==
    /\ Len(Strip(t.translated_text)) >= MIN_TTS_TEXT_LENGTH
    /\ Strip(Lower(t.translated_text)) \notin FILLER_WORDS
    /\ Strip(t.translated_text) \notin FILLER_WORDS

TTSResult(lang, t) ==
    [target_lang |-> lang, audio_data |-> t.audio, duration_ms |-> t.duration_ms,
     target_participant_ids |-> t.ids, cached |-> t.cached]

\* lines 181-197 and 225: the early returns, or one task per candidate
SynthesizeBegin ==
    /\ hpc = "synthesize"
    /\ LET tts_candidates == SelectSeq(translation_results, TtsCandidate)
           langs == {tts_candidates[i].target_lang : i \in 1..Len(tts_candidates)}
           Of(lang) == CHOOSE i \in 1..Len(tts_candidates) :
                          tts_candidates[i].target_lang = lang
       IN  IF tts_candidates = <<>>
           THEN /\ hpc' = "audio"
                /\ UNCHANGED <<task, req, pc, tts_out>>
           ELSE /\ task' = [w \in Workers |->
                              IF LangOf(w) \in langs
                              THEN [NoTask EXCEPT
                                       !.stage = "tts_call",
                                       !.text = tts_candidates[Of(LangOf(w))].translated_text,
                                       !.ids = tts_candidates[Of(LangOf(w))].target_participant_ids]
                              ELSE task[w]]
                /\ req' = [c \in Callers |->
                             IF c \in Workers /\ LangOf(c) \in langs
                             THEN [NoReq EXCEPT
                                      !.kind = "tts", !.room = SessionRoom(S),
                                      !.text = tts_candidates[Of(LangOf(c))].translated_text,
                                      !.tgt = LangOf(c)]
                             ELSE req[c]]
                /\ pc' = [c \in Callers |->
                            IF c \in Workers /\ LangOf(c) \in langs
                            THEN "tts_lookup"
                            ELSE pc[c]]
                /\ tts_out' = [lang \in Languages |->
                                 IF lang \in langs THEN "started" ELSE tts_out[lang]]
                /\ hpc' = "tts_wait"
    /\ tts_results' = <<>>
    /\ UNCHANGED <<cacheVars, regVars, sttVars, streamVars, sessVars, ev, wait_from, tmp, res, prev, ncalls,
                   failed, workload, utt, scan, translation_results, responses,
                   at_snapshot, at_emit, submitted, trans_out>>

\* synthesize_single, lines 205-222: get_or_create_tts has returned or raised
SynthesizeSingleReturned(w) ==
    /\ task[w].stage = "tts_call"
    /\ pc[w] = "idle"
    /\ LET r == res[w]
       IN  IF r.raised \/ r.value[1] = <<>>
           THEN /\ task' = [task EXCEPT ![w] = [NoTask EXCEPT !.stage = "tts_done"]]
                /\ tts_out' = [tts_out EXCEPT ![LangOf(w)] = "failed"]
           ELSE /\ task' = [task EXCEPT ![w] =
                              [@ EXCEPT !.stage = "tts_done", !.audio = r.value[1],
                                        !.duration_ms = r.value[2], !.cached = r.cached,
                                        !.ok = TRUE]]
                /\ tts_out' = [tts_out EXCEPT ![LangOf(w)] = "ok"]
    /\ res' = [res EXCEPT ![w] = NoRes]
    /\ req' = [req EXCEPT ![w] = NoReq]
    /\ UNCHANGED <<workerFrame, trans_out>>

\* lines 227-236: as_completed hands over a finished synthesize_single
CollectTts(w) ==
    /\ hpc = "tts_wait"
    /\ task[w].stage = "tts_done"
    /\ tts_results' =
          IF task[w].ok
          THEN Append(tts_results, TTSResult(LangOf(w), task[w]))
          ELSE tts_results
    /\ task' = [task EXCEPT ![w] = NoTask]
    /\ hpc' = IF NoTaskLeft(w) THEN "audio" ELSE hpc
    /\ UNCHANGED <<collectFrame, translation_results>>

\* lines 378-392: the next AudioResult is yielded
EmitAudio ==
    /\ hpc = "audio"
    /\ tts_results # <<>>
    /\ responses' = Append(responses, AudioResponse(utt.transcript_id, Head(tts_results)))
    /\ tts_results' = Tail(tts_results)
    /\ UNCHANGED <<cacheVars, callVars, regVars, sttVars, streamVars, sessVars, hpc, utt, scan, task,
                   translation_results, histVars>>

\* lines 394-401: the generator is exhausted
Finish ==
    /\ hpc = "audio"
    /\ tts_results = <<>>
    /\ hpc' = "idle"
    /\ translation_results' = <<>>
    /\ UNCHANGED <<cacheVars, callVars, regVars, sttVars, streamVars, sessVars, utt, scan, task,
                   tts_results, responses, histVars>>


(***************************************************************************)
(* Voice activity detection (server_v10.py:606-691) on the lengths of the  *)
(* byte strings. A chunk is its length and the number of its whole frames   *)
(* the detector (webrtcvad, or the RMS fallback) takes for speech.          *)
(***************************************************************************)
BYTES_PER_SECOND == 32000
SENTENCE_MAX_BYTES == 80000
frame_size == 960
min_speech_frames == 3
max_silence_frames == 11

\* VADProcessor.__init__ lines 613-615, and reset(), lines 688-691
VadIdle == [is_speaking |-> FALSE, silence_frames |-> 0, speech_frames |-> 0]

NoChunk == [bytes |-> 0, speech |-> 0]
\* 2.5 s of speech, 1.5 s of speech, 0.3 s of which half is speech, 1.5 s of
\* silence, a third of a frame
Chunks ==
    {[bytes |-> SENTENCE_MAX_BYTES, speech |-> SENTENCE_MAX_BYTES \div frame_size],
     [bytes |-> 48000, speech |-> 50],
     [bytes |-> 9600, speech |-> 5],
     [bytes |-> 48000, speech |-> 0],
     [bytes |-> 320, speech |-> 0]}

\* VADProcessor.has_speech, lines 625-647
has_speech(chunk) ==
    IF chunk.bytes < frame_size THEN FALSE
    ELSE LET total_frames == chunk.bytes \div frame_size
         IN  total_frames > 0 /\ 10 * chunk.speech >= 3 * total_frames

\* VADProcessor.filter_speech, lines 649-667: the length of what it returns
filter_speech(chunk) ==
    IF chunk.bytes < frame_size THEN chunk.bytes ELSE chunk.speech * frame_size

\* a detector whose silence count survives a speech chunk
process_chunk_total_silence(vad, chunk) ==
    IF has_speech(chunk)
    THEN [vad |-> [is_speaking |-> vad.is_speaking
                                      \/ vad.speech_frames + 1 >= min_speech_frames,
                   silence_frames |-> vad.silence_frames,
                   speech_frames |-> vad.speech_frames + 1],
          has_speech |-> TRUE, is_sentence_end |-> FALSE]
    ELSE IF vad.is_speaking /\ vad.silence_frames + 1 >= max_silence_frames
    THEN [vad |-> VadIdle, has_speech |-> FALSE, is_sentence_end |-> TRUE]
    ELSE [vad |-> [vad EXCEPT !.silence_frames = IF vad.is_speaking THEN @ + 1 ELSE @],
          has_speech |-> FALSE, is_sentence_end |-> FALSE]

\* a detector that ends the sentence one silent chunk late
process_chunk_late_end(vad, chunk) ==
    IF has_speech(chunk)
    THEN [vad |-> [is_speaking |-> vad.is_speaking
                                      \/ vad.speech_frames + 1 >= min_speech_frames,
                   silence_frames |-> 0,
                   speech_frames |-> vad.speech_frames + 1],
          has_speech |-> TRUE, is_sentence_end |-> FALSE]
    ELSE IF vad.is_speaking /\ vad.silence_frames + 1 > max_silence_frames
    THEN [vad |-> VadIdle, has_speech |-> FALSE, is_sentence_end |-> TRUE]
    ELSE [vad |-> [vad EXCEPT !.silence_frames = IF vad.is_speaking THEN @ + 1 ELSE @],
          has_speech |-> FALSE, is_sentence_end |-> FALSE]

\* VADProcessor.process_chunk, lines 669-686: the detector afterwards and the
\* pair it returns
process_chunk(vad, chunk) ==
    IF has_speech(chunk)
    THEN [vad |-> [is_speaking |-> vad.is_speaking
                                      \/ vad.speech_frames + 1 >= min_speech_frames,
                   silence_frames |-> 0,
                   speech_frames |-> vad.speech_frames + 1],
          has_speech |-> TRUE, is_sentence_end |-> FALSE]
    ELSE IF vad.is_speaking /\ vad.silence_frames + 1 >= max_silence_frames
    THEN [vad |-> VadIdle, has_speech |-> FALSE, is_sentence_end |-> TRUE]
    ELSE [vad |-> [vad EXCEPT !.silence_frames = IF vad.is_speaking THEN @ + 1 ELSE @],
          has_speech |-> FALSE, is_sentence_end |-> FALSE]

(***************************************************************************)
(* ConversationServicer.StreamChat (server_v10.py:1391-1569): one call per *)
(* gRPC stream. audio_buffer and vad are fields of the SessionState the    *)
(* call holds in session_state.                                            *)
(***************************************************************************)
Streams == {"g1", "g2"}
\* the session ids the requests of a stream carry: nothing keeps a client
\* from sending the id of another stream's session
StreamIds(g) == IF g = "g1" THEN {"s1", "s2"} ELSE {"s1", "s3"}

\* init.participants of a session_init request for the session sid
InitParticipantSets(sid) ==
    CASE sid = "s1" -> {[p \in Pids |-> Participant(IF p = "p1" THEN "en" ELSE "ja", TRUE)]}
      [] sid = "s2" -> {[p \in Pids |-> Participant("ja", TRUE)]}
      [] OTHER -> InitialParticipants \cup {[p \in {"p1"} |-> Participant("ja", TRUE)]}

NoRequest == [payload |-> None, session_id |-> None, chunk |-> NoChunk]
NoStream ==
    [pc |-> "recv", ninit |-> 0, current_session_id |-> None, session_state |-> None,
     audio_buffer |-> 0, vad |-> VadIdle, request |-> NoRequest,
     is_sentence_end |-> FALSE, buffered_before |-> 0,
     process_reason |-> None, process_bytes |-> 0, run |-> <<>>,
     process_errors |-> {}]

\* the locals an iteration of the request loop leaves behind, cleared
NextRequest(st) ==
    [st EXCEPT !.pc = "recv", !.request = NoRequest, !.is_sentence_end = FALSE,
               !.buffered_before = 0, !.process_reason = None, !.process_bytes = 0,
               !.run = <<>>]

\* _process_audio (lines 1571-1784) as StreamChat sees it: the kinds of the
\* responses the generator yields before it returns, and "raise" where an
\* exception leaves it. No text: none; a filler or one character: the
\* transcript; else the transcript and the AudioResult of the synthesized
\* language. get_or_create_stt raises before any response, a later cache
\* call after the transcript.
ProcessAudioRuns ==
    {<<>>, <<"transcript">>, <<"transcript", "audio">>,
     <<"raise">>, <<"transcript", "raise">>}

\* lines 1583-1585 of the _process_audio call for the session s
CountSegment(s) ==
    /\ chunks_processed' = [chunks_processed EXCEPT ![s] = @ + 1]
    /\ sentences_completed' = [sentences_completed EXCEPT ![s] = @ + 1]

streamFrame == <<cacheVars, callVars, regVars, sttVars, pipeVars, histVars, upd, nupd, seen>>

\* lines 1406-1464: the session is built, registered under self.lock and
\* answered with the READY status
session_init(g) ==
    /\ stream[g].pc = "recv"
    /\ stream[g].ninit < MaxInits
    /\ upd.at = "idle"
    /\ \E sid \in StreamIds(g) : \E ps \in InitParticipantSets(sid) :
          LET strategy == determine_primary_strategy(ps, SourceLanguage(sid))
          IN  /\ stream' = [stream EXCEPT ![g] =
                               [@ EXCEPT !.ninit = @ + 1, !.current_session_id = sid,
                                         !.session_state = sid, !.audio_buffer = 0,
                                         !.vad = VadIdle]]
              /\ sessions' = sessions \cup {sid}
              /\ participants' = Put(participants, sid, ps)
              /\ primary_strategy' = Put(primary_strategy, sid, strategy)
              /\ chunks_processed' = Put(chunks_processed, sid, 0)
              /\ sentences_completed' = Put(sentences_completed, sid, 0)
              /\ yielded' = [yielded EXCEPT ![g] =
                                Append(@, [kind |-> "status", session_id |-> sid,
                                           seq |-> 0, strategy |-> strategy])]
    /\ UNCHANGED streamFrame

\* lines 1467-1487: the chunk goes through the detector and its speech
\* frames are appended to the buffer. The chunks of an initialised stream
\* carry the id of its session.
audio_chunk(g) ==
    /\ stream[g].pc = "recv"
    /\ \E sid \in StreamIds(g), chunk \in Chunks :
          LET st == stream[g]
              request == [payload |-> "audio_chunk", session_id |-> sid, chunk |-> chunk]
              v == process_chunk(st.vad, chunk)
          IN  IF st.session_state = None
              THEN stream' = [stream EXCEPT ![g] = [@ EXCEPT !.current_session_id = sid]]
              ELSE /\ sid = st.session_state
                   /\ chunks_processed[st.session_state] < MaxSegments
                   /\ stream' = [stream EXCEPT ![g] =
                         [@ EXCEPT !.current_session_id = sid,
                                   !.request = request, !.vad = v.vad,
                                   !.is_sentence_end = v.is_sentence_end,
                                   !.buffered_before = st.audio_buffer,
                                   !.audio_buffer =
                                       IF v.has_speech THEN @ + filter_speech(chunk) ELSE @,
                                   !.pc = "decide"]]
    /\ UNCHANGED <<streamFrame, yielded, sessions, participants, primary_strategy,
                   chunks_processed, sentences_completed>>

\* a test that asks no minimum of a sentence
process_reason_any_sentence(is_sentence_end, buffered) ==
    IF is_sentence_end THEN "sentence_end"
    ELSE IF buffered >= SENTENCE_MAX_BYTES THEN "buffer_full"
    ELSE None
\* lines 1481-1482 and 1489-1497: should_process and process_reason
process_reason(is_sentence_end, buffered) ==
    IF is_sentence_end /\ buffered >= BYTES_PER_SECOND \div 2 THEN "sentence_end"
    ELSE IF buffered >= SENTENCE_MAX_BYTES THEN "buffer_full"
    ELSE None

\* lines 1489-1514: the buffer is detached and _process_audio is called, or
\* the loop goes on to the next request
StreamDecide(g) ==
    /\ stream[g].pc = "decide"
    /\ LET st == stream[g]
           reason == process_reason(st.is_sentence_end, st.audio_buffer)
       IN  IF reason # None
           THEN /\ \E run \in ProcessAudioRuns :
                      stream' = [stream EXCEPT ![g] =
                          [@ EXCEPT !.process_bytes = st.audio_buffer,
                                    !.audio_buffer = 0,
                                    !.process_reason = reason,
                                    !.vad = IF reason = "buffer_full" THEN VadIdle ELSE @,
                                    !.run = run,
                                    !.pc = "yield"]]
                /\ CountSegment(st.session_state)
           ELSE /\ stream' = [stream EXCEPT ![g] = NextRequest(st)]
                /\ UNCHANGED <<chunks_processed, sentences_completed>>
    /\ UNCHANGED <<streamFrame, yielded, sessions, participants, primary_strategy>>

\* lines 1514-1515 and 1536-1537: for response in self._process_audio(...):
\* yield response
StreamYield(g) ==
    /\ stream[g].pc = "yield"
    /\ stream[g].run # <<>>
    /\ Head(stream[g].run) # "raise"
    /\ LET st == stream[g]
       IN  /\ yielded' = [yielded EXCEPT ![g] =
                             Append(@, [kind |-> Head(st.run),
                                        session_id |-> st.session_state,
                                        seq |-> chunks_processed[st.session_state],
                                        strategy |-> None])]
           /\ stream' = [stream EXCEPT ![g] = [@ EXCEPT !.run = Tail(@)]]
    /\ UNCHANGED <<streamFrame, sessions, participants, primary_strategy,
                   chunks_processed, sentences_completed>>

\* a loop that goes to the next request with responses still to come
StreamSegmentDoneEarly(g) ==
    /\ stream[g].pc = "yield"
    /\ stream' = [stream EXCEPT ![g] =
                     IF @.request.payload = "session_end"
                     THEN [@ EXCEPT !.pc = "ending"]
                     ELSE [@ EXCEPT !.pc = "recv"]]
    /\ UNCHANGED <<streamFrame, yielded, sessions, participants, primary_strategy,
                   chunks_processed, sentences_completed>>
\* an exception that reaches the handler's outer `except`: an ErrorResponse
\* is yielded and the stream ends
StreamSegmentRaisedEscapes(g) ==
    /\ stream[g].pc = "yield"
    /\ stream[g].run # <<>>
    /\ Head(stream[g].run) = "raise"
    /\ yielded' = [yielded EXCEPT ![g] =
                      Append(@, [kind |-> "error",
                                 session_id |-> stream[g].current_session_id,
                                 seq |-> 0, strategy |-> None])]
    /\ stream' = [stream EXCEPT ![g] = [@ EXCEPT !.pc = "finally", !.run = <<>>]]
    /\ UNCHANGED <<streamFrame, sessions, participants, primary_strategy,
                   chunks_processed, sentences_completed>>
\* the generator raised: lines 1522-1523 / 1538-1539 catch the exception and
\* log PROCESS_ERROR / END_PROCESS_ERROR; on to the next request, or to the
\* end of session_end
StreamSegmentRaised(g) ==
    /\ stream[g].pc = "yield"
    /\ stream[g].run # <<>>
    /\ Head(stream[g].run) = "raise"
    /\ LET logged == [stream[g] EXCEPT
                         !.process_errors =
                             @ \cup {<<stream[g].ninit,
                                       chunks_processed[stream[g].session_state]>>}]
       IN  stream' = [stream EXCEPT ![g] =
                        IF logged.request.payload = "session_end"
                        THEN [logged EXCEPT !.pc = "ending", !.run = <<>>]
                        ELSE NextRequest(logged)]
    /\ UNCHANGED <<streamFrame, yielded, sessions, participants, primary_strategy,
                   chunks_processed, sentences_completed>>

\* the generator is exhausted: on to the next request, or to the end of
\* session_end
StreamSegmentDone(g) ==
    /\ stream[g].pc = "yield"
    /\ stream[g].run = <<>>
    /\ stream' = [stream EXCEPT ![g] =
                     IF @.request.payload = "session_end"
                     THEN [@ EXCEPT !.pc = "ending"]
                     ELSE NextRequest(@)]
    /\ UNCHANGED <<streamFrame, yielded, sessions, participants, primary_strategy,
                   chunks_processed, sentences_completed>>

\* lines 1526-1541: the detector is reset and the rest of the buffer is
\* processed when it holds 0.3 s, dropped otherwise
session_end(g) ==
    /\ stream[g].pc = "recv"
    /\ \E sid \in StreamIds(g) :
          LET st == stream[g]
              request == [payload |-> "session_end", session_id |-> sid, chunk |-> NoChunk]
              began == [st EXCEPT !.current_session_id = sid, !.request = request]
          IN  IF st.session_state = None
              THEN /\ stream' = [stream EXCEPT ![g] = [began EXCEPT !.pc = "ending"]]
                   /\ UNCHANGED <<chunks_processed, sentences_completed>>
              ELSE IF st.audio_buffer >= (BYTES_PER_SECOND * 3) \div 10
              THEN /\ \E run \in ProcessAudioRuns :
                         stream' = [stream EXCEPT ![g] =
                             [began EXCEPT !.vad = VadIdle,
                                           !.buffered_before = st.audio_buffer,
                                           !.process_bytes = st.audio_buffer,
                                           !.audio_buffer = 0,
                                           !.run = run,
                                           !.pc = "yield"]]
                   /\ CountSegment(st.session_state)
              ELSE /\ stream' = [stream EXCEPT ![g] =
                         [began EXCEPT !.vad = VadIdle,
                                       !.buffered_before = st.audio_buffer,
                                       !.audio_buffer = 0, !.pc = "ending"]]
                   /\ UNCHANGED <<chunks_processed, sentences_completed>>
    /\ UNCHANGED <<streamFrame, yielded, sessions, participants, primary_strategy>>

\* lines 1543-1553: self.sessions.pop(current_session_id, None); break
StreamEndPop(g) ==
    /\ stream[g].pc = "ending"
    /\ upd.at = "idle"
    /\ sessions' = sessions \ {stream[g].current_session_id}
    /\ stream' = [stream EXCEPT ![g] = [@ EXCEPT !.pc = "finally"]]
    /\ UNCHANGED <<streamFrame, yielded, participants, primary_strategy,
                   chunks_processed, sentences_completed>>

\* the request iterator ends, or raises and lines 1555-1563 answer with an
\* ErrorResponse
StreamStop(g) ==
    /\ stream[g].pc = "recv"
    /\ \E raised \in BOOLEAN :
          yielded' = [yielded EXCEPT ![g] =
                         IF raised
                         THEN Append(@, [kind |-> "error",
                                         session_id |-> stream[g].current_session_id,
                                         seq |-> 0, strategy |-> None])
                         ELSE @]
    /\ stream' = [stream EXCEPT ![g] = [@ EXCEPT !.pc = "finally"]]
    /\ UNCHANGED <<streamFrame, sessions, participants, primary_strategy,
                   chunks_processed, sentences_completed>>

\* lines 1565-1569: finally, self.sessions.pop(current_session_id, None)
StreamFinally(g) ==
    /\ stream[g].pc = "finally"
    /\ upd.at = "idle"
    /\ sessions' = IF stream[g].current_session_id # None
                   THEN sessions \ {stream[g].current_session_id}
                   ELSE sessions
    /\ stream' = [stream EXCEPT ![g] = [@ EXCEPT !.pc = "closed"]]
    /\ UNCHANGED <<streamFrame, yielded, participants, primary_strategy,
                   chunks_processed, sentences_completed>>

StreamChat(g) ==
    \/ session_init(g)
    \/ audio_chunk(g)
    \/ StreamDecide(g)
    \/ StreamYield(g)
    \/ StreamSegmentRaised(g)
    \/ StreamSegmentDone(g)
    \/ session_end(g)
    \/ StreamEndPop(g)
    \/ StreamStop(g)
    \/ StreamFinally(g)

(***************************************************************************)
(* Initial states and specifications.                                      *)
(***************************************************************************)
InitCache ==
    /\ now = 0
    /\ next_sweep = CACHE_CLEANUP_INTERVAL
    /\ stt_cache = EmptyMap
    /\ translation_cache = EmptyMap
    /\ tts_cache = EmptyMap
    /\ pending_requests = EmptyMap
    /\ event_set = {}
    /\ cache_lock = NoLock

InitCalls ==
    /\ pc = [c \in Callers |-> "idle"]
    /\ req = [c \in Callers |-> NoReq]
    /\ ev = [c \in Callers |-> NoEvent]
    /\ wait_from = [c \in Callers |-> 0]
    /\ tmp = [c \in Callers |-> NoOutcome]
    /\ res = [c \in Callers |-> NoRes]
    /\ prev = [c \in Callers |-> NoRes]
    /\ ncalls = [c \in Callers |-> 0]
    /\ failed = {}
    /\ workload \in {"stt", "translation", "tts"}

InitRegistry == room_listeners = EmptyMap

\* no text has come from the STT engine
InitEngine ==
    /\ heard = TextEmpty
    /\ verdict = "none"

\* ConversationServicer.__init__, lines 1386-1389: no session yet
InitSessions ==
    /\ sessions = {}
    /\ participants = EmptyMap
    /\ primary_strategy = EmptyMap
    /\ upd = NoUpdate
    /\ nupd = 0
    /\ chunks_processed = EmptyMap
    /\ sentences_completed = EmptyMap
    /\ seen = {}

\* no process_audio_parallel call has been made
InitPipeline ==
    /\ hpc = "idle"
    /\ utt = NoUtt
    /\ scan = 0
    /\ task = [w \in Workers |-> NoTask]
    /\ translation_results = <<>>
    /\ tts_results = <<>>
    /\ responses = <<>>
    /\ at_snapshot = {}
    /\ at_emit = NoSettings
    /\ submitted = {}
    /\ trans_out = NoOutcomes
    /\ tts_out = NoOutcomes

\* no stream is open
InitStreams ==
    /\ stream = [g \in Streams |-> NoStream]
    /\ yielded = [g \in Streams |-> <<>>]

Init ==
    /\ InitCache
    /\ InitCalls
    /\ InitRegistry
    /\ InitEngine
    /\ InitSessions
    /\ InitPipeline
    /\ InitStreams

Next ==
    \/ \E c \in Threads : StartCall(c)
    \/ \E c \in Threads : get_or_create_stt(c)
    \/ \E c \in Threads : get_or_create_translation(c)
    \/ \E c \in Threads : get_or_create_tts(c)
    \/ cleanup_expired
    \/ Tick

Spec == Init /\ [][Next]_vars

NextRegistry ==
    \/ \E room \in RegRooms, l \in Listeners, lang \in RegLangs :
          register_listener(room, l, lang)
    \/ \E room \in RegRooms, l \in Listeners, lang \in RegLangs :
          unregister_listener(room, l, lang)
    \/ \E room \in RegRooms, lang \in RegLangs :
          get_listeners_for_language(room, lang)

SpecRegistry == Init /\ [][NextRegistry]_vars

\* one stream has initialised session S; its handler processes segments
\* while UpdateParticipantSettings calls arrive
InitPipe ==
    /\ InitCache
    /\ pc = [c \in Callers |-> "idle"]
    /\ req = [c \in Callers |-> NoReq]
    /\ ev = [c \in Callers |-> NoEvent]
    /\ wait_from = [c \in Callers |-> 0]
    /\ tmp = [c \in Callers |-> NoOutcome]
    /\ res = [c \in Callers |-> NoRes]
    /\ prev = [c \in Callers |-> NoRes]
    /\ ncalls = [c \in Callers |-> 0]
    /\ failed = {}
    /\ workload = "pipeline"
    /\ InitRegistry
    /\ InitEngine
    /\ sessions = {S}
    /\ \E ps \in InitialParticipants :
          /\ participants = [s \in {S} |-> ps]
          /\ primary_strategy =
                [s \in {S} |-> determine_primary_strategy(ps, SourceLanguage(s))]
    /\ upd = NoUpdate
    /\ nupd = 0
    /\ chunks_processed = [s \in {S} |-> 0]
    /\ sentences_completed = [s \in {S} |-> 0]
    /\ seen = {participants[S]}
    /\ InitPipeline
    /\ stream = [g \in Streams |->
                    IF g = "g1"
                    THEN [NoStream EXCEPT !.ninit = 1, !.current_session_id = S,
                                          !.session_state = S]
                    ELSE NoStream]
    /\ yielded = [g \in Streams |-> <<>>]

\* the handler is the only caller of get_or_create_stt here: it never finds
\* a pending Event, so the waiter's steps are not among its steps
NextPipe ==
    \/ StartUtterance
    \/ SttLookup(Handler)
    \/ SttMark(Handler)
    \/ SttCompute(Handler)
    \/ SttStore(Handler)
    \/ SttFinally(Handler)
    \/ AfterStt
    \/ get_target_languages
    \/ TranslateBegin
    \/ \E w \in Workers : get_or_create_translation(w)
    \/ \E w \in Workers : TranslateSingleReturned(w)
    \/ \E w \in Workers : get_participants_by_target_language(w)
    \/ \E w \in Workers : CollectTranslation(w)
    \/ EmitTranscript
    \/ SynthesizeBegin
    \/ \E w \in Workers : get_or_create_tts(w)
    \/ \E w \in Workers : SynthesizeSingleReturned(w)
    \/ \E w \in Workers : CollectTts(w)
    \/ EmitAudio
    \/ Finish
    \/ UpdateParticipantSettings

SpecPipe == InitPipe /\ [][NextPipe]_vars

\* ConversationServicer.__init__ (lines 1386-1389): no session, no stream
InitStream ==
    /\ InitCache
    /\ pc = [c \in Callers |-> "idle"]
    /\ req = [c \in Callers |-> NoReq]
    /\ ev = [c \in Callers |-> NoEvent]
    /\ wait_from = [c \in Callers |-> 0]
    /\ tmp = [c \in Callers |-> NoOutcome]
    /\ res = [c \in Callers |-> NoRes]
    /\ prev = [c \in Callers |-> NoRes]
    /\ ncalls = [c \in Callers |-> 0]
    /\ failed = {}
    /\ workload = "stream"
    /\ InitRegistry
    /\ InitEngine
    /\ InitSessions
    /\ InitPipeline
    /\ InitStreams

\* one stream and all its requests
NextStream == StreamChat("g1")

SpecStream == InitStream /\ [][NextStream]_vars

\* two streams that send no audio, and UpdateParticipantSettings calls
NextSessions ==
    \/ \E g \in Streams :
          \/ session_init(g)
          \/ session_end(g)
          \/ StreamEndPop(g)
          \/ StreamStop(g)
          \/ StreamFinally(g)
    \/ UpdateParticipantSettings

SpecSessions == InitStream /\ [][NextSessions]_vars

\* three stream handlers of one room call get_or_create_stt with the same
\* speaker and audio: a leader and two waiters
SttCallers == Threads \cup {Handler}
\* calls each of the three makes
MaxHerdCalls == 1

InitHerd ==
    /\ Init
    /\ workload = "stt"

NextHerd ==
    \/ \E c \in SttCallers : ncalls[c] < MaxHerdCalls /\ StartCall(c)
    \/ \E c \in SttCallers : get_or_create_stt(c)
    \/ cleanup_expired
    \/ Tick

SpecHerd == InitHerd /\ [][NextHerd]_vars

\* the cache with its lock: two client threads and the sweeper
NextLock ==
    \/ \E c \in Threads : StartCall(c)
    \/ \E c \in Threads : Acquire(c)
    \/ \E c \in Threads : UnderLock(c)
    \/ \E c \in Threads : OutsideLock(c)
    \/ SweeperAcquire
    \/ LockHeldBySweeper /\ cleanup_expired
    \/ Tick

SpecLock == Init /\ [][NextLock]_vars

\* two handlers, one per room, translate or synthesize the same text for the
\* same languages through one RoomCacheManager, of either implementation
RoomOf(c) == IF c = "t1" THEN "r1" ELSE "r2"

WorkloadKind ==
    CASE workload \in {"translation", "translation_v10"} -> "translation"
      [] OTHER -> "tts"

\* the next call of the handler c, for a segment of its room
StartRoomCall(c) ==
    /\ pc[c] = "idle"
    /\ ncalls[c] < MaxCalls
    /\ \E r \in {q \in Requests : q.kind = WorkloadKind} :
          /\ req' = [req EXCEPT ![c] = [r EXCEPT !.room = RoomOf(c)]]
          /\ pc' = [pc EXCEPT ![c] = EntryPoint(r.kind)]
    /\ ncalls' = [ncalls EXCEPT ![c] = @ + 1]
    /\ prev' = [prev EXCEPT ![c] = res[c]]
    /\ res' = [res EXCEPT ![c] = NoRes]
    /\ UNCHANGED <<cacheVars, ev, wait_from, tmp, failed, workload, otherVars>>

InitRooms ==
    /\ InitCache
    /\ pc = [c \in Callers |-> "idle"]
    /\ req = [c \in Callers |-> NoReq]
    /\ ev = [c \in Callers |-> NoEvent]
    /\ wait_from = [c \in Callers |-> 0]
    /\ tmp = [c \in Callers |-> NoOutcome]
    /\ res = [c \in Callers |-> NoRes]
    /\ prev = [c \in Callers |-> NoRes]
    /\ ncalls = [c \in Callers |-> 0]
    /\ failed = {}
    /\ workload \in {"translation", "tts"} \cup Monolith
    /\ InitRegistry
    /\ InitEngine
    /\ InitSessions
    /\ InitPipeline
    /\ InitStreams

NextRooms ==
    \/ \E c \in Threads : StartRoomCall(c)
    \/ \E c \in Threads : get_or_create_translation(c)
    \/ \E c \in Threads : get_or_create_tts(c)
    \/ cleanup_expired
    \/ Tick

SpecRooms == InitRooms /\ [][NextRooms]_vars

\* one utterance of the pipeline while the clock runs; the steps are grouped
\* by the thread that takes them.  The handler thread runs
\* process_audio_parallel: the STT call, translate_parallel's submit and
\* as_completed loop, the transcript, synthesize_parallel's submit and loop,
\* the audio responses.
HandlerStep ==
    \/ StartUtterance
    \/ SttLookup(Handler)
    \/ SttMark(Handler)
    \/ SttCompute(Handler)
    \/ SttStore(Handler)
    \/ SttFinally(Handler)
    \/ AfterStt
    \/ get_target_languages
    \/ TranslateBegin
    \/ \E w \in Workers : CollectTranslation(w)
    \/ EmitTranscript
    \/ SynthesizeBegin
    \/ \E w \in Workers : CollectTts(w)
    \/ EmitAudio
    \/ Finish

\* the pool thread of one target language: the code of translate_single and
\* synthesize_single around the external call
WorkerStep(w) ==
    \/ TransLookup(w)
    \/ TransStore(w)
    \/ TranslateSingleReturned(w)
    \/ get_participants_by_target_language(w)
    \/ TtsLookup(w)
    \/ TtsStore(w)
    \/ SynthesizeSingleReturned(w)

\* the translation or TTS engine answers (or raises) on its own schedule
ExternalReturn(w) ==
    \/ TransCompute(w)
    \/ TtsCompute(w)

NextTimeout ==
    \/ HandlerStep
    \/ \E w \in Workers : WorkerStep(w)
    \/ \E w \in Workers : ExternalReturn(w)
    \/ Tick

\* where every thread stands and what the clock shows: each step of
\* NextTimeout changes it
control ==
    <<hpc, pc, now, scan, [w \in Workers |-> task[w].stage], Len(tts_results)>>

\* every thread of the process keeps running and the clock keeps advancing;
\* nothing obliges the external engine to answer
SpecTimeout ==
    /\ InitPipe
    /\ [][NextTimeout]_vars
    /\ WF_control(HandlerStep)
    /\ \A w \in Workers : WF_control(WorkerStep(w))
    /\ WF_control(Tick)

\* the life of one room: listeners of room r1 come and go while one thread
\* uses the caches for the room, the clock runs and the sweeper sweeps
RoomThreads == {"t1"}
NextRoomLife ==
    \/ \E room \in CallRooms, l \in Listeners, lang \in CallTargets :
          register_listener(room, l, lang)
    \/ \E room \in CallRooms, l \in Listeners, lang \in CallTargets :
          unregister_listener(room, l, lang)
    \/ \E room \in CallRooms, lang \in CallTargets :
          get_listeners_for_language(room, lang)
    \/ \E c \in RoomThreads : StartCall(c)
    \/ \E c \in RoomThreads : SttLookup(c)
    \/ \E c \in RoomThreads : SttMark(c)
    \/ \E c \in RoomThreads : SttCompute(c)
    \/ \E c \in RoomThreads : SttStore(c)
    \/ \E c \in RoomThreads : SttFinally(c)
    \/ \E c \in RoomThreads : get_or_create_translation(c)
    \/ \E c \in RoomThreads : get_or_create_tts(c)
    \/ cleanup_expired
    \/ Tick

SpecRoomLife == Init /\ [][NextRoomLife]_vars

\* the texts the STT engine may produce: up to MaxWords words, each one of
\* two words of ArtifactWords, separated by single blanks, bare or padded
MaxWords == 7
ArtifactWords ==
    {<<"u">>, <<"m">>, <<"U">>, <<"u", "m">>, <<"u", ".">>, <<"u", ".", ".">>,
     <<"u", ".", ".", "m">>, <<".", ".", ".">>,
     <<"u", "m", "o", "u", "m", "o", "u", "m", "o", "u", "m", "o">>,
     <<"u", "m", "o", "h", "u", "m", "o", "h", "u", "m", "o", "h">>}

RECURSIVE Join(_)
Join(words) ==
    IF words = <<>> THEN <<>>
    ELSE IF Len(words) = 1 THEN words[1]
    ELSE words[1] \o <<" ">> \o Join(Tail(words))

HeardTexts ==
    {TextEmpty} \cup
    UNION {{Join(ws), <<" ">> \o Join(ws) \o <<" ">>} :
             ws \in UNION {{[i \in 1..n |-> IF i \in second THEN y ELSE x] :
                              second \in SUBSET (1..n)} :
                           <<n, x, y>> \in (1..MaxWords) \X ArtifactWords \X ArtifactWords}}

\* stt.py:283: the engine's result_text goes through the filter
FilterArtifact ==
    /\ verdict = "none"
    /\ verdict' = IF is_audio_artifact(heard) THEN "artifact" ELSE "speech"
    /\ UNCHANGED <<heard, cacheVars, callVars, regVars, sessVars, pipeVars, histVars,
                   streamVars>>

InitArtifact ==
    /\ InitCache
    /\ InitCalls
    /\ workload = "stt"
    /\ InitRegistry
    /\ InitSessions
    /\ InitPipeline
    /\ InitStreams
    /\ heard \in HeardTexts
    /\ verdict = "none"

NextArtifact == FilterArtifact

SpecArtifact == InitArtifact /\ [][NextArtifact]_vars

(***************************************************************************)
(* Properties of the cache.                                                *)
(***************************************************************************)
InFlight(kind) == {c \in Callers : pc[c] = kind}

\* C1: for every STT key, at most one transcribe_fn invocation for the key
\* is in flight at any instant.
SttSingleFlight ==
    \A c1, c2 \in InFlight("stt_compute") :
        SttKey(req[c1]) = SttKey(req[c2]) => c1 = c2

\* C2: for every translation key and every TTS key, at most one
\* translate_fn / synthesize_fn invocation for the key is in flight at any
\* instant.
TransTtsSingleFlight ==
    /\ \A c1, c2 \in InFlight("trans_compute") :
          TransKey(req[c1]) = TransKey(req[c2]) => c1 = c2
    /\ \A c1, c2 \in InFlight("tts_compute") :
          TtsKey(req[c1]) = TtsKey(req[c2]) => c1 = c2

\* C3: no get_or_create call returns, with was_cached = true, an entry that
\* was older than its TTL when it was read under the lock.
NeverServedStale ==
    \A c \in Callers : (pc[c] = "idle" /\ res[c].cached) => ~res[c].stale

\* C4: a caller whose previous call computed and stored the engine's result
\* for a key, and whose next call with the same key reads the cache within
\* TTL of that store, is served from the cache on its first lookup, with the
\* same value and without a compute, as long as every compute for the key
\* delivered the same result.
SecondCallCached ==
    [][\A c \in Callers :
          ( /\ pc[c] \in {"stt_lookup", "trans_lookup", "tts_lookup"}
            /\ pc'[c] # pc[c]
            /\ prev[c].kind = req[c].kind
            /\ prev[c].key = KeyOf(req[c])
            /\ ~prev[c].cached
            /\ ~prev[c].raised
            /\ prev[c].value = ComputeOk(req[c])
            /\ <<req[c].kind, KeyOf(req[c])>> \notin failed
            /\ now - prev[c].at <= CACHE_TTL_SECONDS )
          => ( /\ pc'[c] = "idle"
               /\ res'[c].cached
               /\ res'[c].value = prev[c].value )]_vars

\* C4 witness: a second call served from the cache at the very age of TTL
SecondCallCachedWitness ==
    \E c \in Callers :
        /\ pc[c] = "idle"
        /\ res[c].cached
        /\ prev[c].kind = res[c].kind
        /\ prev[c].key = res[c].key
        /\ ~prev[c].cached
        /\ prev[c].value = res[c].value
        /\ prev[c].value = ComputeOk(req[c])
        /\ now - prev[c].at = CACHE_TTL_SECONDS

(***************************************************************************)
(* Properties of the listener registry.                                    *)
(***************************************************************************)
\* C6: a listener is a member of at most one target-language set of a room.
ListenerInOneLanguage ==
    \A room \in DOMAIN room_listeners : \A l \in Listeners :
        Cardinality({lang \in DOMAIN room_listeners[room] :
                        l \in room_listeners[room][lang]}) <= 1

\* the listeners a registry holds for a language of a room, none when the
\* room or the language has no entry
MembersIn(reg, room, lang) ==
    IF room \in DOMAIN reg /\ lang \in DOMAIN reg[room] THEN reg[room][lang] ELSE {}

\* C16: from any registry state, register_listener followed by
\* unregister_listener with the same room, listener and language leaves every
\* language of the room with the listeners it had before, the listener's
\* earlier registration under that language included.
RegisterThenUnregisterRestores ==
    \A room \in RegRooms, listener \in Listeners, lang \in RegLangs :
        LET after == Unregistered(Registered(room_listeners, room, listener, lang),
                                  room, listener, lang)
        IN  \A l \in RegLangs :
                MembersIn(after, room, l) = MembersIn(room_listeners, room, l)

(***************************************************************************)
(* Properties of the pipeline.                                             *)
(***************************************************************************)
TranscriptIdx == {i \in 1..Len(responses) : responses[i].kind = "transcript"}
AudioIdx == {i \in 1..Len(responses) : responses[i].kind = "audio"}
Entries == IF TranscriptIdx = {} THEN <<>> ELSE responses[1].translations
EntryLangs == {Entries[k].target_language : k \in 1..Len(Entries)}
AudioLangs == {responses[j].target_language : j \in AudioIdx}
\* the call is over and had submitted translation tasks
FannedOut == hpc = "idle" /\ submitted # {}

\* C5: whenever the call has yielded anything, the first response is the
\* transcript, it is the only transcript, and every later response is an
\* AudioResult carrying that transcript's id.
TranscriptBeforeAudio ==
    responses # <<>> =>
        /\ responses[1].kind = "transcript"
        /\ \A j \in 2..Len(responses) :
              /\ responses[j].kind = "audio"
              /\ responses[j].transcript_id = responses[1].id

\* C5: a transcript followed by the audio of two languages
TranscriptBeforeAudioWitness ==
    /\ Len(responses) = 3
    /\ AudioIdx = {2, 3}
    /\ responses[2].transcript_id = responses[1].id

\* C7: for a finished segment whose text is no filler and longer than one
\* character, some settings state the session had during the segment explains
\* the fan-out: the tasks submitted are its target languages and each entry
\* lists its enabled participants of that language; no language has two
\* entries or two AudioResults.
FanOutPerLanguage ==
    (/\ hpc = "idle"
     /\ TranscriptIdx # {}
     /\ ~IsFiller(utt.text)
     /\ Len(Strip(utt.text)) > 1)
    =>
        /\ \E ps \in seen :
              /\ submitted = TargetLanguages(ps, SourceLanguage(S))
              /\ \A k \in 1..Len(Entries) :
                    Entries[k].target_participant_ids =
                        ParticipantsByTargetLanguage(ps, Entries[k].target_language)
        /\ \A k, l \in 1..Len(Entries) :
              Entries[k].target_language = Entries[l].target_language => k = l
        /\ \A i, j \in AudioIdx :
              responses[i].target_language = responses[j].target_language => i = j

PassesTtsFilter(T) ==
    \E k \in 1..Len(Entries) :
        /\ Entries[k].target_language = T
        /\ Len(Strip(Entries[k].translated_text)) >= MIN_TTS_TEXT_LENGTH
        /\ ~IsFiller(Entries[k].translated_text)

RecipientsAsAtEmit ==
    \A j \in AudioIdx :
        responses[j].target_participant_ids =
            ParticipantsByTargetLanguage(at_emit, responses[j].target_language)

\* C10: once the target languages of a segment are taken, one settings
\* state that the session had while they were being taken accounts for them,
\* for every entry of the transcript and for every AudioResult of the segment.
SnapshotIsolation ==
    hpc \in {"translate", "trans_wait", "transcript", "synthesize", "tts_wait", "audio"} =>
        \E ps \in at_snapshot :
            /\ utt.target_languages = TargetLanguages(ps, SourceLanguage(S))
            /\ \A k \in 1..Len(Entries) :
                  Entries[k].target_participant_ids =
                      ParticipantsByTargetLanguage(ps, Entries[k].target_language)
            /\ \A j \in AudioIdx :
                  responses[j].target_participant_ids =
                      ParticipantsByTargetLanguage(ps, responses[j].target_language)

\* no translation and no TTS work exists for the segment in hand: nothing was
\* submitted, no worker is inside a cache call and none has delivered a result
NoTranslationOrTtsWork ==
    /\ submitted = {}
    /\ trans_out = NoOutcomes
    /\ tts_out = NoOutcomes
    /\ \A w \in Workers : pc[w] = "idle" /\ task[w] = NoTask
    /\ translation_results = <<>>
    /\ tts_results = <<>>

\* C11: when the STT text of a segment, stripped and lower-cased, is a filler
\* word, the responses of the segment are exactly one TranscriptResult with
\* an empty translations list, there is no AudioResult, and no translation
\* or TTS compute is invoked.
FillerOnlyTranscript ==
    (utt.stt_returned /\ Strip(Lower(utt.text)) \in FILLER_WORDS)
    =>
        /\ Len(responses) = 1
        /\ responses[1].kind = "transcript"
        /\ responses[1].original_text = utt.text
        /\ responses[1].translations = <<>>
        /\ NoTranslationOrTtsWork

\* a segment that said " Um" has been answered
FillerOnlyTranscriptWitness ==
    /\ hpc = "idle"
    /\ utt.stt_returned
    /\ utt.text = <<" ", "U", "m">>
    /\ Len(responses) = 1

\* C12: when get_or_create_stt returns an empty text, the segment has no
\* response at all and no translation or TTS compute is invoked.
EmptyTextNoResponse ==
    (utt.stt_returned /\ utt.text = <<>>)
    =>
        /\ responses = <<>>
        /\ hpc = "idle"
        /\ NoTranslationOrTtsWork

\* a segment whose transcription came back empty is over
EmptyTextNoResponseWitness ==
    /\ hpc = "idle"
    /\ utt.stt_returned
    /\ utt.text = <<>>
    /\ utt.audio \in Audios
    /\ responses = <<>>

(***************************************************************************)
(* Properties of StreamChat and of the session map.                        *)
(***************************************************************************)
\* the sessions a stream has registered: one READY status each
RegisteredBy(g) ==
    {yielded[g][i].session_id :
        i \in {k \in 1..Len(yielded[g]) : yielded[g][k].kind = "status"}}

\* C13: after a session_end on a stream with an initialised session, a rest
\* of the buffer of 9600 bytes or more has been detached whole and every
\* response of it was yielded before the removal, a shorter rest was dropped,
\* and in both cases the session is no longer in the session map.
SessionEndRemovesSession ==
    \A g \in Streams :
        LET st == stream[g]
        IN  (st.request.payload = "session_end" /\ st.session_state # None)
            =>
                /\ st.pc \in {"ending", "finally", "closed"} => st.run = <<>>
                /\ st.pc \in {"yield", "ending", "finally", "closed"} =>
                      /\ st.audio_buffer = 0
                      /\ st.process_bytes =
                            IF st.buffered_before >= 9600 THEN st.buffered_before ELSE 0
                /\ st.pc \in {"finally", "closed"} => st.session_state \notin sessions

\* C14: once a stream's handler has returned, no session the stream
\* registered through session_init is in the session map.
ClosedStreamLeavesNoSession ==
    \A g \in Streams :
        stream[g].pc = "closed" => RegisteredBy(g) \cap sessions = {}

\* the primary strategy as the word orders give it
StrategyByWordOrder(ps, source) ==
    IF \E p \in DOMAIN ps :
          /\ ps[p].translation_enabled
          /\ ps[p].target_language # source
          /\ WordOrderGroup(ps[p].target_language) # WordOrderGroup(source)
    THEN "sentence"
    ELSE "chunk"

\* the sessions an UpdateParticipantSettings call has to change
SessionsToUpdate ==
    {s \in upd.before.sessions :
        /\ SessionRoom(s) = upd.request.room_id
        /\ upd.request.participant_id \in DOMAIN upd.before.participants[s]}

\* C15: when the loop of UpdateParticipantSettings(R, P, L, E) is over, every
\* session of room R that holds P has P set to (L, E) and its primary
\* strategy recomputed, every other session and participant is as the call
\* found it, and the success the call returns is true exactly when some
\* session was updated.
UpdateChangesMatchingSessions ==
    (upd.at = "loop" /\ upd.todo = <<>>)
    =>
        /\ sessions = upd.before.sessions
        /\ \A s \in SessionsToUpdate :
              /\ participants[s] =
                    [upd.before.participants[s] EXCEPT
                        ![upd.request.participant_id] =
                            Participant(upd.request.target_language,
                                        upd.request.translation_enabled)]
              /\ primary_strategy[s] =
                    StrategyByWordOrder(participants[s], SourceLanguage(s))
        /\ \A s \in (DOMAIN participants) \ SessionsToUpdate :
              /\ participants[s] = upd.before.participants[s]
              /\ primary_strategy[s] = upd.before.primary_strategy[s]
        /\ upd.updated <=> SessionsToUpdate # {}

\* a call has updated two sessions of room r1 and left a third session alone
UpdateChangesMatchingSessionsWitness ==
    /\ upd.at = "loop"
    /\ upd.todo = <<>>
    /\ upd.updated
    /\ Cardinality(SessionsToUpdate) = 2
    /\ sessions \ SessionsToUpdate # {}
    /\ \E s \in SessionsToUpdate : participants[s] # upd.before.participants[s]

\* C17: the step that follows the detector and the append detaches the buffer
\* exactly when the chunk ended a sentence and the buffer holds 16000 bytes or
\* more, or the buffer holds SENTENCE_MAX_BYTES or more; the reason is
\* sentence_end in the first case and buffer_full otherwise; the detector is
\* reset when the reason is buffer_full and untouched otherwise; without a
\* detach the buffer stays as it is.
DetachDecision ==
    [][\A g \in Streams :
          (stream[g].pc = "decide" /\ stream'[g] # stream[g])
          =>
            LET st == stream[g]
                after == stream'[g]
                sentence == st.is_sentence_end /\ st.audio_buffer >= 16000
                full == st.audio_buffer >= 80000
            IN  IF sentence \/ full
                THEN /\ after.pc = "yield"
                     /\ after.process_bytes = st.audio_buffer
                     /\ after.audio_buffer = 0
                     /\ after.process_reason =
                           IF sentence THEN "sentence_end" ELSE "buffer_full"
                     /\ after.vad = IF sentence THEN st.vad ELSE VadIdle
                ELSE /\ after.pc = "recv"
                     /\ after.audio_buffer = st.audio_buffer
                     /\ after.vad = st.vad
      ]_vars

\* a sentence of 0.5 s or more has been detached at its end, and before it a
\* full buffer
DetachDecisionWitness ==
    \E g \in Streams :
        /\ stream[g].pc = "yield"
        /\ stream[g].process_reason = "sentence_end"
        /\ stream[g].process_bytes >= 16000
        /\ chunks_processed[stream[g].session_state] = 2

\* C18: a chunk of exactly SENTENCE_MAX_BYTES bytes whose frames are all
\* speech, handled on an empty buffer, is detached with the reason
\* buffer_full while it is handled, and the detector is reset.
FullChunkDetached ==
    [][\A g \in Streams :
          (/\ stream[g].pc = "decide"
           /\ stream'[g] # stream[g]
           /\ stream[g].request.chunk.bytes = 80000
           /\ stream[g].request.chunk.speech = 80000 \div frame_size
           /\ stream[g].buffered_before = 0)
          =>
            /\ stream'[g].pc = "yield"
            /\ stream'[g].process_reason = "buffer_full"
            /\ stream'[g].vad = VadIdle
      ]_vars

\* the transcripts a stream has yielded
TranscriptsOf(g) == {i \in 1..Len(yielded[g]) : yielded[g][i].kind = "transcript"}

\* C19: the transcripts of a session leave the stream in the order in which
\* their segments were detached, and the handler takes no request while a
\* response of the segment in hand is still to be yielded.
TranscriptsInDetachOrder ==
    \A g \in Streams :
        /\ stream[g].pc \in {"recv", "decide"} => stream[g].run = <<>>
        /\ \A i, j \in TranscriptsOf(g) :
              (/\ i < j
               /\ yielded[g][i].session_id = yielded[g][j].session_id
               /\ \A k \in i..j : yielded[g][k].kind # "status")
              => yielded[g][i].seq < yielded[g][j].seq

\* two segments of a session have been answered, the first with an audio
TranscriptsInDetachOrderWitness ==
    \E g \in Streams : \E i, j \in TranscriptsOf(g) :
        /\ j = i + 2
        /\ yielded[g][i + 1].kind = "audio"
        /\ yielded[g][i].seq = 1
        /\ yielded[g][j].seq = 2
        /\ stream[g].pc = "recv"

\* C20: after session_init and after every update of a session, its primary
\* strategy is sentence-based exactly when an enabled participant whose
\* target is not the source language has a target of another word-order
\* group than the source, and chunk-based otherwise.
StrategyFollowsWordOrder ==
    \A s \in sessions :
        ~(upd.at = "enabled" /\ Head(upd.todo) = s)
        => primary_strategy[s] = StrategyByWordOrder(participants[s], SourceLanguage(s))

\* an update has turned a chunk-based session into a sentence-based one
\* while another session kept its strategy
StrategyFollowsWordOrderWitness ==
    /\ upd.at = "loop"
    /\ upd.todo = <<>>
    /\ \E s \in sessions :
          /\ upd.before.primary_strategy[s] = "chunk"
          /\ primary_strategy[s] = "sentence"
    /\ \E s \in sessions : primary_strategy[s] = "chunk"

CallEnded(event) ==
    \/ ncalls[event[1]] > event[2]
    \/ pc[event[1]] = "idle"

\* C25: once the call of a leader has ended, the Event this leader installed
\* is set, so a waiter that captured it is not left to its wait timeout.
LeaderSignalSet ==
    \A w \in InFlight("stt_wait") :
        CallEnded(ev[w]) => ev[w] \in event_set

\* C26: a compute for an STT key is in flight only while the key has a
\* pending-request entry, and the key has an entry only between a leader's
\* installation of it and the end of that leader's call.
PendingSpansCompute ==
    /\ \A c \in InFlight("stt_compute") :
          SttKey(req[c]) \in DOMAIN pending_requests
    /\ \A key \in DOMAIN pending_requests :
          \E c \in Callers :
              /\ pc[c] \in {"stt_compute", "stt_store", "stt_finally"}
              /\ SttKey(req[c]) = key

\* C27: of the waiters that were blocked on one leader's Event and became
\* leaders after their re-check, at most one runs transcribe_fn for the key
\* at any instant.
RetriesAreSerial ==
    \A c1, c2 \in InFlight("stt_compute") :
        ( /\ ev[c1] # NoEvent
          /\ ev[c2] = ev[c1]
          /\ SttKey(req[c1]) = SttKey(req[c2]) )
        => c1 = c2

\* C28: no thread holds the cache lock while it is inside a compute function
\* or inside event.wait(), and every change of the three cache maps and of
\* the pending-request map is made by the holder of the lock.
LockOnlyAroundMapOperations ==
    /\ [](\A c \in Callers : LockHeldBy(c) => pc[c] \notin Blocking)
    /\ [][ <<stt_cache, translation_cache, tts_cache, pending_requests>>'
              # <<stt_cache, translation_cache, tts_cache, pending_requests>>
           => ( \/ LockHeldBySweeper
                \/ \E c \in Callers : LockHeldBy(c) /\ pc'[c] # pc[c] ) ]_vars

\* C28 witness: the sweeper has the lock while one thread is inside
\* transcribe_fn and another one blocks in event.wait()
LockOnlyAroundMapOperationsWitness ==
    /\ LockHeldBySweeper
    /\ \E c1, c2 \in Callers :
          /\ pc[c1] = "stt_compute"
          /\ pc[c2] = "stt_wait"

(***************************************************************************)
(* The voice-activity state machine.                                       *)
(***************************************************************************)
\* the table of the two states Idle and Speaking: the state and the pair
\* (has_speech, sentence_end) after a chunk classified speech or silence
VadTable(vad, speech) ==
    IF ~vad.is_speaking
    THEN IF speech
         THEN [vad |-> [vad EXCEPT !.speech_frames = @ + 1,
                                   !.is_speaking = vad.speech_frames + 1 >= min_speech_frames],
               has_speech |-> TRUE, is_sentence_end |-> FALSE]
         ELSE [vad |-> vad, has_speech |-> FALSE, is_sentence_end |-> FALSE]
    ELSE IF speech
         THEN [vad |-> [vad EXCEPT !.silence_frames = 0],
               has_speech |-> TRUE, is_sentence_end |-> FALSE]
         ELSE IF vad.silence_frames + 1 >= max_silence_frames
              THEN [vad |-> [is_speaking |-> FALSE, silence_frames |-> 0,
                             speech_frames |-> 0],
                    has_speech |-> FALSE, is_sentence_end |-> TRUE]
              ELSE [vad |-> [vad EXCEPT !.silence_frames = @ + 1],
                    has_speech |-> FALSE, is_sentence_end |-> FALSE]

\* the same state of the table: Idle or Speaking, the silence count, and in
\* Idle the speech count (the table does not use it in Speaking)
SameVadState(a, b) ==
    /\ a.is_speaking = b.is_speaking
    /\ a.silence_frames = b.silence_frames
    /\ ~a.is_speaking => a.speech_frames = b.speech_frames

\* C29: every chunk a stream hands to process_chunk leaves the detector in
\* the state of the table and returns the table's (has_speech, sentence_end),
\* and reset() leaves it Idle with both counters zero.
VadFollowsTable ==
    [][\A g \in Streams :
          /\ (stream[g].pc = "recv" /\ stream'[g].pc = "decide")
             => LET chunk == stream'[g].request.chunk
                    table == VadTable(stream[g].vad, has_speech(chunk))
                IN  /\ SameVadState(stream'[g].vad, table.vad)
                    /\ stream'[g].is_sentence_end = table.is_sentence_end
                    /\ stream'[g].audio_buffer # stream[g].audio_buffer
                          => table.has_speech
                    /\ table.has_speech
                          => stream'[g].audio_buffer
                                = stream[g].audio_buffer + filter_speech(chunk)
          /\ ( \/ stream[g].pc = "decide" /\ stream'[g].process_reason = "buffer_full"
               \/ /\ stream[g].pc = "recv"
                  /\ stream[g].session_state # None
                  /\ stream'[g].request.payload = "session_end" )
             => stream'[g].vad = VadIdle
      ]_vars

\* C29 witness: a silent chunk, the eleventh in a row in Speaking, has just
\* ended a sentence and left the detector Idle
VadFollowsTableWitness ==
    \E g \in Streams :
        /\ stream[g].pc = "decide"
        /\ ~has_speech(stream[g].request.chunk)
        /\ stream[g].is_sentence_end
        /\ stream[g].vad = VadIdle
        /\ stream[g].audio_buffer > 0

(***************************************************************************)
(* The TTS fan-out of process_audio_parallel.                              *)
(***************************************************************************)
\* the AudioResults yielded for a language
AudioOf(T) == {j \in AudioIdx : responses[j].target_language = T}

\* C30: an AudioResult is yielded for a language only if its translation
\* succeeded, passes the TTS filter and its TTS returned audio; once the TTS
\* tasks are submitted there is one task for exactly the translations that
\* pass the filter; and when the call is over every TTS that returned audio
\* has exactly one AudioResult.
AudioOnlyThroughTtsFilter ==
    /\ \A j \in AudioIdx :
          LET T == responses[j].target_language
          IN  /\ trans_out[T] = "ok"
              /\ PassesTtsFilter(T)
              /\ tts_out[T] = "ok"
              /\ responses[j].audio_data # <<>>
    /\ \A T \in Languages :
          /\ Cardinality({w \in Workers : /\ LangOf(w) = T
                                          /\ task[w].stage \in {"tts_call", "tts_done"}}) <= 1
          /\ tts_out[T] # "none" => trans_out[T] = "ok"
    /\ (hpc \in {"tts_wait", "audio"} \/ (hpc = "idle" /\ TranscriptIdx # {}))
          => \A T \in Languages :
                tts_out[T] # "none" <=> (T \in EntryLangs /\ PassesTtsFilter(T))
    /\ (hpc = "idle" /\ TranscriptIdx # {})
          => \A T \in Languages :
                Cardinality(AudioOf(T)) = IF tts_out[T] = "ok" THEN 1 ELSE 0

\* C30 witness: the call is over; of two translated languages one passed the
\* filter and has its AudioResult, the other was too short for a TTS
AudioOnlyThroughTtsFilterWitness ==
    /\ hpc = "idle"
    /\ \E T1, T2 \in EntryLangs :
          /\ Cardinality(AudioOf(T1)) = 1
          /\ tts_out[T2] = "none"
          /\ \E k \in 1..Len(Entries) :
                /\ Entries[k].target_language = T2
                /\ Len(Strip(Entries[k].translated_text)) < MIN_TTS_TEXT_LENGTH

(***************************************************************************)
(* Room scope of the translation and TTS caches.                           *)
(***************************************************************************)
\* the calls a room's handlers have made that computed and stored a value
ComputedFor(room, kind) ==
    {x \in UNION {{res[d], prev[d]} : d \in {e \in Threads : RoomOf(e) = room}} :
        /\ x.kind = kind
        /\ ~x.cached
        /\ ~x.raised}

\* C22: with either RoomCacheManager, a translation or TTS call for a room is
\* served from the cache only a value that a call for the same room computed.
CacheValuesStayInRoom ==
    \A c \in Threads :
        (pc[c] = "idle" /\ res[c].cached)
        => \E x \in ComputedFor(RoomOf(c), res[c].kind) : x.value = res[c].value

(***************************************************************************)
(* Ownership of the session state.                                         *)
(***************************************************************************)
\* C23: while a session is in the session map, every change of its
\* participants or of its primary strategy is a step of the stream handler
\* that registered it.
SessionStateOwnedByHandler ==
    [][\A s \in sessions :
          ( \/ participants'[s] # participants[s]
            \/ primary_strategy'[s] # primary_strategy[s] )
          => \E g \in Streams :
                /\ s \in RegisteredBy(g)
                /\ stream'[g] # stream[g]
      ]_vars

(***************************************************************************)
(* Timeouts of the external calls                                          *)
(***************************************************************************)

\* C21: an external translation or TTS call that has not returned does not
\* hold the utterance back.  While the handler waits for the translations
\* and at least TRANSLATION_TIMEOUT seconds of the clock remain, the
\* transcript is eventually emitted; while it waits for the syntheses and
\* at least TTS_TIMEOUT seconds remain, the audio responses are eventually
\* emitted; whether or not the engine ever answers.
PipelineContinuesPastTimeout ==
    /\ (hpc = "trans_wait" /\ now + TRANSLATION_TIMEOUT <= MaxTime) ~> (hpc = "transcript")
    /\ (hpc = "tts_wait" /\ now + TTS_TIMEOUT <= MaxTime) ~> (hpc = "audio")

(***************************************************************************)
(* The sweeper                                                             *)
(***************************************************************************)
\* `after` is `before` without the entries older than CACHE_TTL_SECONDS
ExactlyExpiredRemoved(before, after) ==
    /\ DOMAIN after =
          {k \in DOMAIN before : now - before[k].created_at <= CACHE_TTL_SECONDS}
    /\ \A k \in DOMAIN after : after[k] = before[k]

\* a run of _cleanup_expired: the sweeper goes back to sleep
SweepRuns == next_sweep' # next_sweep

\* C31: a run of the sweeper happens with the cache lock held by the
\* sweeper, removes from the STT, translation and TTS caches exactly the
\* entries that are expired at that run, keeps every other entry as it was,
\* and leaves the pending-request map and the listener registry unchanged.
SweepRemovesExactlyExpired ==
    [][SweepRuns =>
          /\ LockHeldBySweeper
          /\ DOMAIN stt_cache' = DOMAIN stt_cache
          /\ \A room \in DOMAIN stt_cache :
                /\ DOMAIN stt_cache'[room] = DOMAIN stt_cache[room]
                /\ \A speaker \in DOMAIN stt_cache[room] :
                      ExactlyExpiredRemoved(stt_cache[room][speaker],
                                            stt_cache'[room][speaker])
          /\ ExactlyExpiredRemoved(translation_cache, translation_cache')
          /\ ExactlyExpiredRemoved(tts_cache, tts_cache')
          /\ pending_requests' = pending_requests
          /\ room_listeners' = room_listeners
      ]_vars

\* a sweep has run and removed the entry a thread had stored, while another
\* thread's call for the key is in progress
SweepRemovesExactlyExpiredWitness ==
    /\ next_sweep > CACHE_CLEANUP_INTERVAL
    /\ workload = "translation"
    /\ \E c \in Threads :
          /\ res[c].kind = "translation"
          /\ ~res[c].raised
          /\ res[c].key \notin DOMAIN translation_cache
    /\ \E c \in Threads : pc[c] \notin {"idle"}

(***************************************************************************)
(* The end of a room                                                       *)
(***************************************************************************)
\* the keys of translation_cache and tts_cache that belong to the room
FlatKeysOf(room) ==
    {k \in (DOMAIN translation_cache) \cup (DOMAIN tts_cache) : k[1] = room}

\* no listener is registered for the room
NoListenerLeft(room) == \A lang \in DOMAIN LangsOf(room) : ListenersOf(room, lang) = {}

\* no cache entry of the room is left
NoEntryLeft(room) ==
    /\ FlatKeysOf(room) = {}
    /\ room \in DOMAIN stt_cache =>
          \A speaker \in DOMAIN stt_cache[room] : DOMAIN stt_cache[room][speaker] = {}

\* C32: once a sweep has run, a room with no listener registered and no
\* cache entry left has no key in room_listeners, stt_cache,
\* translation_cache or tts_cache.
RoomCollapses ==
    \A room \in CallRooms :
        ( /\ next_sweep > CACHE_CLEANUP_INTERVAL
          /\ NoListenerLeft(room)
          /\ NoEntryLeft(room) )
        => /\ room \notin DOMAIN room_listeners
           /\ room \notin DOMAIN stt_cache
           /\ FlatKeysOf(room) = {}

(***************************************************************************)
(* The repetition filter                                                   *)
(***************************************************************************)
\* the whitespace-separated tokens of the text as the engine produced it
Tokens == Split(heard)
AllIdentical(words) == \A i, k \in 1..Len(words) : words[i] = words[k]

\* three or more identical tokens that end in a dot
DotSuffixedRun(words) ==
    \E i \in 1..Len(words) :
        /\ Len(words[i]) >= 2
        /\ words[i][Len(words[i])] = "."
        /\ Cardinality({k \in 1..Len(words) : words[k] = words[i]}) >= 3

\* one of the other rules applies to the text
OtherRuleApplies ==
    \/ Strip(Lower(heard)) \in AUDIO_ARTIFACT_PATTERNS
    \/ DotSuffixedRun(Tokens)
    \/ RepeatedChar(Strip(Lower(heard)))
    \/ FewChars(Strip(Lower(heard)))

\* C33: a text of five or more identical tokens is an artifact, and so is a
\* text of six or more tokens with at most two distinct ones; a text of
\* four identical tokens is not, unless it is an exact artifact pattern, has
\* three or more identical dot-suffixed tokens, has one character above 60%
\* of its counted characters at length 10 or more, or has at most three
\* distinct characters at length 50 or more.
ArtifactRepetition ==
    verdict # "none" =>
        /\ (Len(Tokens) >= 5 /\ AllIdentical(Tokens)) => verdict = "artifact"
        /\ (Len(Tokens) >= 6 /\ Cardinality(SetOf(Tokens)) <= 2) => verdict = "artifact"
        /\ (Len(Tokens) = 4 /\ AllIdentical(Tokens) /\ ~OtherRuleApplies)
              => verdict = "speech"

(***************************************************************************)
(* An exception while a segment is processed                               *)
(***************************************************************************)
\* the _process_audio call of stream g raises at this step
SegmentRaises(g) ==
    /\ stream[g].pc = "yield"
    /\ stream[g].run # <<>>
    /\ Head(stream[g].run) = "raise"
    /\ stream'[g] # stream[g]

\* the how-manieth session of the stream the i-th response belongs to
SessionNumber(g, i) ==
    Cardinality({k \in 1..i : yielded[g][k].kind = "status"})

\* the stream has yielded an ErrorResponse
ErrorYielded(g) == \E i \in 1..Len(yielded[g]) : yielded[g][i].kind = "error"

\* C34: an exception raised while a detached segment is processed stays
\* inside the stream handler. At that step nothing is yielded, the session
\* map is unchanged, and the handler goes on exactly as after a segment
\* that ended normally: to the next request with the session, the detector
\* and the empty buffer it had, or to the end of session_end. A segment
\* that raised gets no response afterwards, and an ErrorResponse is only
\* ever followed by the end of the stream.
SegmentExceptionContained ==
    /\ [][\A g \in {"g1"} :
            SegmentRaises(g) =>
               /\ yielded' = yielded
               /\ sessions' = sessions
               /\ stream[g].session_state \in sessions'
               /\ stream'[g].pc =
                     (IF stream[g].request.payload = "session_end" THEN "ending" ELSE "recv")
               /\ stream'[g].session_state = stream[g].session_state
               /\ stream'[g].vad = stream[g].vad
               /\ stream'[g].audio_buffer = 0
               /\ stream'[g].run = <<>>
       ]_vars
    /\ [](\A g \in {"g1"} :
            /\ ErrorYielded(g) => stream[g].pc \in {"finally", "closed"}
            /\ \A i \in 1..Len(yielded[g]) :
                  ( /\ yielded[g][i].kind \in {"transcript", "audio"}
                    /\ <<SessionNumber(g, i), yielded[g][i].seq>>
                          \in stream[g].process_errors )
                  => yielded[g][i].kind = "transcript")

\* the first segment raised after its transcript, and the second segment of
\* the same session got its transcript and its audio
SegmentExceptionContainedWitness ==
    LET g == "g1"
    IN  /\ stream[g].process_errors = {<<1, 1>>}
        /\ stream[g].session_state \in sessions
        /\ stream[g].ninit = 1
        /\ \E i, j, k \in 1..Len(yielded[g]) :
              /\ i < j /\ j < k
              /\ yielded[g][i].kind = "transcript" /\ yielded[g][i].seq = 1
              /\ yielded[g][j].kind = "transcript" /\ yielded[g][j].seq = 2
              /\ yielded[g][k].kind = "audio" /\ yielded[g][k].seq = 2

(***************************************************************************)
(* Sessions of other streams                                               *)
(***************************************************************************)
\* the stream has an initialised session and has neither received
\* session_end nor stopped
LiveStream(g) ==
    /\ stream[g].session_state # None
    /\ stream[g].pc \in {"recv", "decide", "yield"}
    /\ stream[g].request.payload # "session_end"

\* C35: the session of a live stream is in the session map, whatever the
\* other streams send or however they end.
LiveSessionStaysRegistered ==
    \A g \in Streams : LiveStream(g) => stream[g].session_state \in sessions

(***************************************************************************)
(* Silence after buffered speech                                           *)
(***************************************************************************)
\* one stream whose client keeps sending and never ends the session
NextSegments ==
    \/ session_init("g1")
    \/ audio_chunk("g1")
    \/ StreamDecide("g1")
    \/ StreamYield("g1")
    \/ StreamSegmentRaised("g1")
    \/ StreamSegmentDone("g1")

\* the handler thread keeps running and the client keeps sending requests
SpecSegments ==
    /\ InitStream
    /\ [][NextSegments]_vars
    /\ WF_stream(NextSegments)

\* the handler waits for a request with at least 0.5 s of speech buffered
SpeechBuffered(g) ==
    /\ stream[g].session_state # None
    /\ stream[g].pc = "recv"
    /\ stream[g].audio_buffer >= BYTES_PER_SECOND \div 2

\* the buffer has just been detached with reason sentence_end
SentenceEndDetached(g) ==
    /\ stream[g].pc = "yield"
    /\ stream[g].process_reason = "sentence_end"

\* a chunk with speech has arrived
SpeechArrived(g) ==
    /\ stream[g].request.payload = "audio_chunk"
    /\ has_speech(stream[g].request.chunk)

\* C36: once the buffer holds 0.5 s of speech, and for as long as nothing
\* but silent chunks arrive for the session, the buffer is eventually
\* detached with reason sentence_end, whatever the state of the detector.
SilenceEndsSentence ==
    \A n \in 1..MaxInits :
       (SpeechBuffered("g1") /\ stream["g1"].ninit = n)
          ~> \/ SentenceEndDetached("g1")
             \/ SpeechArrived("g1")
             \/ stream["g1"].ninit # n

(***************************************************************************)
(* The bytes of the session buffer                                         *)
(***************************************************************************)
\* the step appends the speech of the chunk it received to the buffer
SpeechAppended(st, after) ==
    /\ st.pc = "recv"
    /\ after.pc = "decide"
    /\ has_speech(after.request.chunk)
    /\ after.audio_buffer = st.audio_buffer + filter_speech(after.request.chunk)

\* the step detaches the whole buffer and hands it to the pipeline
BufferDetached(st, after) ==
    /\ st.pc \in {"recv", "decide"}
    /\ after.pc = "yield"
    /\ after.process_bytes = st.audio_buffer
    /\ after.audio_buffer = 0

\* the step is a session_end that drops less than 0.3 s
ResidualDropped(st, after) ==
    /\ st.pc = "recv"
    /\ after.request.payload = "session_end"
    /\ st.audio_buffer < (BYTES_PER_SECOND * 3) \div 10
    /\ after.audio_buffer = 0

\* C37: segmentation neither loses nor repeats audio. The buffer of a
\* stream changes only by the speech of a chunk being appended to it, by
\* being detached whole and handed to the pipeline, after which it is
\* empty, or by session_end dropping a residual shorter than 0.3 s; a
\* detach hands over exactly what the buffer held.
BufferConserved ==
    /\ [][\A g \in Streams :
            LET st == stream[g]
                after == stream'[g]
            IN  /\ after.audio_buffer # st.audio_buffer
                   => \/ SpeechAppended(st, after)
                      \/ BufferDetached(st, after)
                      \/ ResidualDropped(st, after)
                /\ (st.pc # "yield" /\ after.pc = "yield") => BufferDetached(st, after)
       ]_vars
    /\ [](\A g \in Streams : stream[g].pc = "yield" => stream[g].audio_buffer = 0)

(***************************************************************************)
(* Empty results in the caches                                             *)
(***************************************************************************)
\* the entry a cache holds for the request r
EntryFor(r) ==
    CASE r.kind = "stt" -> stt_cache[r.room][r.speaker][make_audio_hash(r.audio)]
      [] r.kind = "translation" -> translation_cache[TransKey(r)]
      [] OTHER -> tts_cache[TtsKey(r)]

\* the call before c's current one computed and stored a value for the same
\* key, CACHE_TTL_SECONDS ago at most
FurtherCall(c) ==
    /\ prev[c].kind = req[c].kind
    /\ prev[c].kind # None
    /\ ~prev[c].cached
    /\ ~prev[c].raised
    /\ prev[c].key = KeyOf(req[c])
    /\ now - prev[c].at <= CACHE_TTL_SECONDS

\* C38: a call that follows, within the TTL, a call that computed a value
\* for the same key, the empty value of a failed backend included, never
\* invokes its compute: its lookup returns with was_cached = True the value
\* of the entry, which is the value the earlier call stored unless another
\* thread has stored over it.
StoredResultServed ==
    /\ [](\A c \in Threads :
            FurtherCall(c)
            => /\ pc[c] \in {"idle", "stt_lookup", "trans_lookup", "tts_lookup"}
               /\ pc[c] = "idle"
                  => /\ res[c].cached
                     /\ ~res[c].raised
                     /\ (\A d \in Threads \ {c} : ncalls[d] = 0)
                           => res[c].value = prev[c].value)
    /\ [][\A c \in Threads :
            (FurtherCall(c) /\ pc[c] # "idle" /\ pc'[c] # pc[c])
            => /\ pc'[c] = "idle"
               /\ res'[c].cached
               /\ res'[c].value = EntryFor(req[c]).value
       ]_vars

\* a translation that came back empty was stored, and the next call for the
\* same text got the empty text from the cache
StoredResultServedWitness ==
    \E c \in Threads :
        /\ FurtherCall(c)
        /\ pc[c] = "idle"
        /\ prev[c].kind = "translation"
        /\ prev[c].value = TextEmpty
        /\ res[c].cached
        /\ res[c].value = TextEmpty
        /\ \A d \in Threads \ {c} : ncalls[d] = 0

(***************************************************************************)
(* Pending requests                                                        *)
(***************************************************************************)
\* no thread is inside get_or_create_stt
NoSttCallInProgress == \A c \in Callers : pc[c] = "idle"

\* C39: whenever no get_or_create_stt call is in progress, pending_requests
\* is empty.
PendingEmptyWhenQuiet ==
    NoSttCallInProgress => pending_requests = EmptyMap

\* three calls for one key have all ended, two of them having computed at
\* the same time, one by an exception and one by a return
PendingEmptyWhenQuietWitness ==
    /\ NoSttCallInProgress
    /\ pending_requests = EmptyMap
    /\ \A c \in SttCallers : ncalls[c] = MaxHerdCalls
    /\ \E c, d \in SttCallers :
          /\ res[c].raised
          /\ res[d].kind = "stt" /\ ~res[d].raised /\ ~res[d].cached
          /\ res[d].key = res[c].key

(***************************************************************************)
(* The counters of the detector                                            *)
(***************************************************************************)
\* C40: in every state of a VADProcessor, silence_frames is at least 0 and
\* below max_silence_frames; it is 0 while the detector is Idle; and while
\* the detector is Speaking, speech_frames is at least min_speech_frames.
VadCountersInRange ==
    \A g \in Streams :
        LET vad == stream[g].vad
        IN  /\ 0 <= vad.silence_frames
            /\ vad.silence_frames < max_silence_frames
            /\ ~vad.is_speaking => vad.silence_frames = 0
            /\ vad.is_speaking => vad.speech_frames >= min_speech_frames

\* a Speaking detector one silent chunk before the end of the sentence
VadCountersInRangeWitness ==
    \E g \in Streams :
        /\ stream[g].vad.is_speaking
        /\ stream[g].vad.silence_frames = max_silence_frames - 1
        /\ stream[g].vad.speech_frames = min_speech_frames
        /\ stream[g].pc = "recv"

====
